---- MODULE Spec2Model ----
(***************************************************************************)
(* The log consumer of logtrace-system (cmd/comsumer/main.go): the drain   *)
(* loop goroutine, the age timer (time.AfterFunc) whose callback runs on a *)
(* goroutine of its own, the main goroutine that waits for the signal, and *)
(* processBatch with its batch-then-individual delivery to the sink.       *)
(*                                                                         *)
(* The batch is a Go slice shared by the loop and the timer callbacks with *)
(* no lock.  A slice is a header (array, len, cap) over a backing array,   *)
(* so the model keeps a heap of backing arrays and slice headers that      *)
(* refer to them: batch[:0] keeps the array, append writes in place while  *)
(* len < cap, and processBatch receives a header that aliases the array.   *)
(* Every read and every write of the variable batch is one step; a         *)
(* statement that reads and then writes it is two steps.                   *)
(*                                                                         *)
(* Time is counted in ticks of 500 ms.  Local statements take no time;     *)
(* time passes only while every goroutine is blocked (in Fetch, in a       *)
(* Sleep, in an HTTP call to the sink, or waiting for the signal).         *)
(***************************************************************************)
EXTENDS Integers, Sequences, FiniteSets, TLC

(* ---- bounds of the model ---------------------------------------------- *)

\* const batchSize = 100 in the source; the model runs the same code with a
\* small threshold so that full, over-full and partial batches all occur.
batchSize == 2

\* Number of messages the broker ever delivers to this consumer.
MaxMsgs == 3

\* Number of timer callbacks that may be running at the same time.
MaxCallbacks == 1

\* The literal 10000 of Logger (lines 114-115 and 126-127), the most bytes of
\* a body a record keeps; the model runs the same code with a small cap so
\* that bodies under, at and over the cap all occur.
bodyCap == 2

\* Number of requests the API process handles.
MaxReqs == 2

\* Number of calls (SetupStream or CreatePullConsumer) each NATS client makes.
MaxCalls == 3
\* Longest list of entries a caller hands to SendBatchLogs.
MaxEntries == 2

(* ---- program constants, in ticks of 500 ms ---------------------------- *)

TickMs(ms) == ms \div 500

\* const batchTimeoutMs = 1000
batchTimeoutMs == 1000
BatchTimeout == TickMs(batchTimeoutMs)

\* nats.MaxWait(500*time.Millisecond)
fetchWaitMs == 500
FetchWait == TickMs(fetchWaitMs)

\* time.Sleep(1 * time.Second) after a hard fetch error
errSleepMs == 1000
ErrSleep == TickMs(errSleepMs)

\* time.Sleep(1 * time.Second) of main after close(shutdown)
exitSleepMs == 1000
ExitSleep == TickMs(exitSleepMs)

\* Clocks kept for the claims saturate one tick above the timeout.
ClockCap == BatchTimeout + 1

Msgs == 1..MaxMsgs
Slots == 1..MaxCallbacks
\* backing arrays that can be referenced at once: batch, the loop's pending
\* append, the loop's flush and one flush per callback
MaxArr == MaxCallbacks + 3
Arrs == 1..MaxArr

Min(a, b) == IF a < b THEN a ELSE b

VARIABLES
    mainPc,      \* main goroutine: "wait" (<-sigCh), "sleep", "exited"
    mainSlept,   \* ticks main has slept after close(shutdown)
    shutdown,    \* TRUE once the channel shutdown is closed
    loopPc,      \* position of the consumer loop goroutine
    waited,      \* ticks the loop has been blocked in Fetch or in time.Sleep
    msgs,        \* messages returned by the current Fetch (ids, in order)
    idx,         \* index in msgs of the message being processed
    tmp,         \* slice header the loop read for its pending append
    batch,       \* slice header of the shared variable batch
    heap,        \* backing arrays: array id -> contents (<<>> = unallocated)
    timer,       \* batchTimer: ticks until it fires, -1 = none pending
    lf,          \* processBatch frame of the loop goroutine
    cb,          \* timer callback goroutines: slot -> frame
    delivered,   \* number of messages the broker has handed out
    \* ---- history, read by the claims only ----
    poison,      \* messages whose payload did not unmarshal
    appended,    \* records the loop has appended to batch
    acks,        \* message -> number of msg.Ack() calls
    batchSends,  \* record -> number of SendBatchLogs calls that carried it
    flushLog,    \* SendBatchLogs calls in order: [n |-> size, by |-> trigger]
    age,         \* record -> ticks in batch without being handed to the sink
    sinceArm,    \* ticks since the last resetTimer()
    sigBatch,    \* records in batch when the signal arrived
    stopBatch    \* records handed to the sink by the shutdown flush

\* The variables of the consumer process.
consumerVars == <<mainPc, mainSlept, shutdown, loopPc, waited, msgs, idx, tmp,
                  batch, heap, timer, lf, cb, delivered, poison, appended, acks,
                  batchSends, flushLog, age, sinceArm, sigBatch, stopBatch>>

hist == <<poison, appended, acks, batchSends, flushLog, age, sinceArm,
          sigBatch, stopBatch>>

\* The API process (cmd/api/main.go) with the capture hook
\* middleware.Logger.  It shares nothing with the consumer but the broker.
VARIABLES
    lgPc,              \* position of the API process and of the request in Logger
    served,            \* number of requests the router has handed to Logger
    logSubject,        \* main: logSubject := fmt.Sprintf("logs.%s", cfg.ServiceName)
    serviceName,       \* the serviceName argument of Logger
    request,           \* the request being handled
    traceID,           \* Logger's local traceID
    requestBodyBytes,  \* Logger's local requestBodyBytes
    response,          \* what the client gets: status, headers, body
    ginErrors,         \* len(c.Errors) > 0
    logEntry,          \* Logger's local entry
    entryJSON,         \* Logger's local entryJSON
    jsCalls,           \* js.Publish calls of this request: [subject, data, ok]
    uuidCount,         \* number of identifiers uuid.New() has returned
    outcome            \* how Logger left the request

loggerVars == <<lgPc, served, logSubject, serviceName, request, traceID,
                requestBodyBytes, response, ginErrors, logEntry, entryJSON,
                jsCalls, uuidCount, outcome>>

\* The NATS clients of the two processes (internal/nats: natsClient) and the
\* JetStream server they talk to.
VARIABLES
    jsStream,     \* the server's stream: [exists, cfg, by]
    jsConsumer,   \* the server's durable consumer: [exists, cfg, by]
    created,      \* number of consumers the server has created
    cli           \* client of each process: position, StreamCfg, current call

natsVars == <<jsStream, jsConsumer, created, cli>>

\* The sink client of the consumer process (package loki: Client) and the
\* call of SendLog or SendBatchLogs it is in.
VARIABLES
    lkPc,      \* "new", "idle", "send" (in sendToLoki), "done" (returned)
    lkClient,  \* the Client: [urlOK], whether http.NewRequest accepts c.URL
    lkCall,    \* the call: [op, entries]
    lkReq,     \* the PushRequest handed to sendToLoki: its Streams
    lkPosts,   \* payloads c.HTTPClient.Do has POSTed during this call
    lkResp,    \* what Do returned: [net, status]
    lkRet      \* the error the call returned: "none" (running), "nil", "error"

lokiVars == <<lkPc, lkClient, lkCall, lkReq, lkPosts, lkResp, lkRet>>

\* What an action of the consumer leaves alone.
outside == <<loggerVars, natsVars, lokiVars>>

vars == <<consumerVars, loggerVars, natsVars, lokiVars>>

(* ---- slices ------------------------------------------------------------ *)

\* var batch []middleware.LogEntry : the nil slice
NilSlice == [a |-> 0, len |-> 0, cap |-> 0]

\* The records a slice header shows, read from the heap as it is now.
Elems(h, s) == IF s.len = 0 THEN <<>> ELSE SubSeq(h[s.a], 1, s.len)

SeqSet(q) == {q[i] : i \in 1..Len(q)}

\* len(batch) and the records of batch
BatchRecords == SeqSet(Elems(heap, batch))

\* Smallest array id not in use.
FreeArr(h) == CHOOSE a \in Arrs : h[a] = <<>> /\ \A b \in Arrs : h[b] = <<>> => a <= b

Zeros(n) == [i \in 1..n |-> 0]

\* Capacity append gives a slice it has to grow (runtime growslice: doubling).
GrowCap(c) == IF c = 0 THEN 1 ELSE 2 * c

\* append(s, e): the resulting header
AppendSlice(h, s, e) ==
    IF s.len < s.cap
    THEN [s EXCEPT !.len = s.len + 1]
    ELSE [a |-> FreeArr(h), len |-> s.len + 1, cap |-> GrowCap(s.cap)]

\* append(s, e): the heap afterwards.  In place while len < cap, otherwise
\* into a new array holding a copy of s.
AppendHeap(h, s, e) ==
    IF s.len < s.cap
    THEN [h EXCEPT ![s.a][s.len + 1] = e]
    ELSE [h EXCEPT ![FreeArr(h)] =
              Elems(h, s) \o <<e>> \o Zeros(GrowCap(s.cap) - s.len - 1)]

\* s[:0]
Reslice0(s) == [s EXCEPT !.len = 0]

\* Arrays no slice header refers to any more are dropped (garbage collection).
Gc(h, b, t, l, c) ==
    LET live == {b.a, t.a, l.v.a} \cup {c[s].v.a : s \in Slots}
    IN  [a \in Arrs |-> IF a \in live THEN h[a] ELSE <<>>]

(* ---- processBatch frames ---------------------------------------------- *)

\* One activation of processBatch (or of the timer callback around it):
\*   pc      "idle", "check", "call", "posted", "indiv", "ret", "clear"
\*   v       the slice header this activation holds (parameter batch of
\*           processBatch; the header read by batch[:0] at "clear")
\*   handed  the records SendBatchLogs was called with
\*   indiv   the records SendLog was called with, in order
\*   ok      SendBatchLogs returned nil
\*   failed  some SendLog returned an error
Frame0 == [pc |-> "idle", v |-> NilSlice, handed |-> <<>>, indiv |-> <<>>,
           ok |-> FALSE, failed |-> FALSE]

\* Faulty variant of processBatch: the test of lines 150-152 is missing and
\* the sink is called with whatever batch holds.  With it C36 does not hold.
processBatchCallUnchecked(f, b, h) ==
    [f EXCEPT !.pc = "posted", !.v = b, !.handed = Elems(h, b)]

\* processBatch, lines 149-157: the argument is the value of batch now; an
\* empty batch returns at once, otherwise SendBatchLogs is called with it.
processBatchCall(f, b, h) ==
    IF b.len = 0
    THEN [Frame0 EXCEPT !.pc = "ret", !.ok = TRUE]
    ELSE [f EXCEPT !.pc = "posted", !.v = b, !.handed = Elems(h, b)]

\* processBatch, lines 157-172: SendBatchLogs returns.  nil: return.
\* error: go on to the individual sends.
processBatchPosted(f, ok) ==
    IF ok
    THEN [f EXCEPT !.pc = "ret", !.ok = TRUE, !.v = NilSlice]
    ELSE [f EXCEPT !.pc = "indiv"]

\* processBatch, lines 163-168: one iteration of `for _, entry := range
\* batch`: the entry is read from the backing array now and SendLog is
\* called with it; an error is logged and the loop goes on.
processBatchIndiv(f, h, ok) ==
    LET i     == Len(f.indiv) + 1
        entry == h[f.v.a][i]
        last  == i = f.v.len
    IN  [f EXCEPT !.indiv = Append(f.indiv, entry),
                  !.failed = f.failed \/ ~ok,
                  !.pc = IF last THEN "ret" ELSE "indiv",
                  !.v = IF last THEN NilSlice ELSE f.v]

\* History of a SendBatchLogs call.
SendCount(bs, f) ==
    [r \in Msgs |-> IF r \in SeqSet(f.handed) THEN bs[r] + 1 ELSE bs[r]]

LogFlush(log, f, by) ==
    IF f.pc = "posted" THEN Append(log, [n |-> Len(f.handed), by |-> by]) ELSE log

\* age is kept only for records appended and not yet handed to the sink.
NormAge(ag, ap, bs) ==
    [r \in Msgs |-> IF r \in ap /\ bs[r] = 0 THEN ag[r] ELSE 0]

(* ---- the API process: values ------------------------------------------ *)

\* Characters a body is made of: "a" is one byte in UTF-8, "E" stands for a
\* character of two bytes, "E1" "E2".  A Go string and a []byte are
\* sequences of bytes.
Chars == {"a", "E"}

Utf8(c) == IF c = "E" THEN <<"E1", "E2">> ELSE <<c>>

\* The bytes of a text (what the client sends for it).
RECURSIVE Bytes(_)
Bytes(text) ==
    IF text = <<>> THEN <<>> ELSE Utf8(Head(text)) \o Bytes(Tail(text))

\* Request bodies: every text of at most bodyCap + 1 characters.
Bodies == UNION {[1..k -> Chars] : k \in 0..(bodyCap + 1)}

\* Response bodies (bytes the handler writes): "", "a", "aa", ...
ResponseBodies == {[i \in 1..k |-> "a"] : k \in 0..(bodyCap + 1)}

\* "... (truncated)": fifteen ASCII bytes, kept as one unit.
TruncMarker == <<"... (truncated)">>

\* A Content-Type header value, as the pieces strings.Contains can find in
\* it; <<>> is the empty string (no header).
RequestContentTypes ==
    { <<>>,
      <<"application/json">>,
      <<"image/", "png">>,
      <<"multipart/form-data", "; boundary=x">> }

ResponseContentTypes ==
    { <<>>,
      <<"text/plain", "; charset=utf-8">>,
      <<"image/", "png">> }

\* strings.Contains(s, substr)
Contains(s, substr) == substr \in SeqSet(s)

\* Trace identifiers.  spanCtx.TraceID().String() of a context without a
\* span is the all-zero string.
ZeroTraceID == [kind |-> "trace", n |-> 0]
TraceIDs == {ZeroTraceID, [kind |-> "trace", n |-> 1]}

\* The empty string where an identifier is expected.
NoID == [kind |-> "none", n |-> 0]

\* uuid.New().String(): the k-th identifier the generator returns; it
\* differs from every earlier one and from every trace identifier.
NewUuid(k) == [kind |-> "uuid", n |-> k]

ServiceNames == {"microservice", "orders"}
Statuses == {200, 500}

\* Faulty variant of the subject: the "logs." prefix is left out.  With it
\* C13 (amended) does not hold.
SubjectOfBare(name) == <<name>>

\* fmt.Sprintf("logs.%s", name)
SubjectOf(name) == <<"logs", ".", name>>

Request0 == [trace |-> ZeroTraceID, contentType |-> <<>>, body |-> <<>>]
Response0 == [status |-> 200, traceHeader |-> NoID, contentType |-> <<>>,
              body |-> <<>>]
\* the zero LogEntry (fields the claims read)
Entry0 == [TraceID |-> NoID, Status |-> 0, RequestBody |-> <<>>,
           ResponseBody |-> <<>>, ServiceName |-> "", Error |-> FALSE]
Field0 == [present |-> FALSE, value |-> <<>>]
Json0 == [trace_id |-> NoID, status |-> 0, request_body |-> Field0,
          response_body |-> Field0, service_name |-> "", error |-> FALSE]

\* The API process before main has built the router.
LoggerInit ==
    /\ lgPc = "boot"
    /\ served = 0
    /\ logSubject = <<>>
    /\ serviceName = ""
    /\ request = Request0
    /\ traceID = NoID
    /\ requestBodyBytes = <<>>
    /\ response = Response0
    /\ ginErrors = FALSE
    /\ logEntry = Entry0
    /\ entryJSON = Json0
    /\ jsCalls = <<>>
    /\ uuidCount = 0
    /\ outcome = "none"

(* ---- the NATS clients: values ----------------------------------------- *)

\* The publisher (API process) and the consumer process.
Clients == {"api", "consumer"}

\* natsclient.Config both processes build from the same environment
\* (cmd/api/main.go lines 37-48, cmd/comsumer/main.go lines 27-38)
natsConfig ==
    [StreamName |-> "logs", StreamSubjects |-> <<"logs.>">>,
     RetentionPolicy |-> "WorkQueuePolicy", StorageType |-> "file",
     MaxAge |-> "168h", Replicas |-> 1]

\* the nats.StreamConfig SetupStream builds (lines 172-183 and 193-204)
streamConfig(config) ==
    [Name |-> config.StreamName, Subjects |-> config.StreamSubjects,
     Retention |-> config.RetentionPolicy, MaxAge |-> config.MaxAge,
     Storage |-> config.StorageType, Replicas |-> config.Replicas,
     NoAck |-> FALSE, Discard |-> "DiscardOld", MaxMsgs |-> -1, MaxBytes |-> -1]

\* Streams an earlier deployment may have left under the same name.
EarlierStreams ==
    { [streamConfig(natsConfig) EXCEPT !.Subjects = <<"logs.api">>, !.MaxAge = "24h"],
      [streamConfig(natsConfig) EXCEPT !.Storage = "memory"] }

NoStream == [exists |-> FALSE, cfg |-> streamConfig(natsConfig), by |-> "none"]

\* consumerName := "loki-consumer" (cmd/comsumer/main.go line 24)
consumerName == "loki-consumer"

\* filterSubject arguments
Filters == {"logs.>", "logs.api"}

\* Faulty variant of the consumer configuration: acknowledgment policy and
\* MaxDeliver are left at their defaults.  With it C19 does not hold.
consumerConfigDefaults(name, filterSubject) ==
    [Durable |-> name, AckPolicy |-> "AckNonePolicy",
     FilterSubject |-> filterSubject, MaxDeliver |-> 0]

\* the nats.ConsumerConfig of CreatePullConsumer (lines 239-244)
consumerConfig(name, filterSubject) ==
    [Durable |-> name, AckPolicy |-> "AckExplicitPolicy",
     FilterSubject |-> filterSubject, MaxDeliver |-> -1]

NoConsumer == [exists |-> FALSE, cfg |-> consumerConfig("", ""), by |-> "none"]

\* Configurations a caller of the package may hand to SetupStream.
NatsConfigs ==
    { natsConfig,
      [natsConfig EXCEPT !.StorageType = "memory", !.MaxAge = "24h"] }

\* A client: pc, number of calls started, StreamCfg # nil, the
\* configuration StreamCfg points to (read only when it is not nil), and the
\* call it is in or has last finished:
\*   op        "SetupStream", "CreatePullConsumer", "CreatePushConsumer" or
\*             "SubscribePull"
\*   config    the config argument of SetupStream
\*   sent      number of requests the call has sent to the server
\*   filter    the filterSubject argument
\*   ret       "running", "nil" or "error"
\*   why       the error: "no answer", "in use", "rejected", "not set up"
\*   lost      a request of the call got no answer from the server
\*   wasThere  the stream (SetupStream) or the consumer (CreatePullConsumer)
\*             existed when the call started
Client0 == [pc |-> "idle", calls |-> 0, hasStreamCfg |-> FALSE,
            StreamCfg |-> streamConfig(natsConfig), op |-> "none",
            config |-> natsConfig, sent |-> 0,
            filter |-> "", ret |-> "nil", why |-> "", lost |-> FALSE,
            wasThere |-> FALSE]

\* No client has connected; the server has no stream and no consumer.
NatsInit ==
    /\ jsStream = NoStream
    /\ jsConsumer = NoConsumer
    /\ created = 0
    /\ cli = [p \in Clients |-> Client0]

(* ---- values of the sink client (package loki) -------------------------- *)

\* Strings that become labels, as the pieces fmt.Sprintf("%s-%s-%s") puts
\* together: a name may itself hold a "-".
LokiServices == {<<"a">>, <<"a", "-", "b">>}
LokiEnvironments == {<<"c">>, <<"b", "-", "c">>}
LokiTraceIDs == {<<"t1">>, <<"t2">>}

\* middleware.LogEntry values a caller can pass (the fields the client
\* reads).  Latency is a float64: json.Marshal refuses NaN and the
\* infinities.
LogEntries ==
    [ServiceName : LokiServices, Environment : LokiEnvironments,
     TraceID : LokiTraceIDs, Method : {"GET"}, Status : {200},
     Timestamp : {1}, Latency : {"finite", "NaN"}]

\* The entries argument of SendBatchLogs: every list of at most MaxEntries.
EntryLists == UNION {[1..k -> LogEntries] : k \in 0..MaxEntries}

\* Status codes Do can hand back (3xx when a redirect cannot be followed).
LokiStatuses == {200, 204, 399, 400, 500}

NoCall == [op |-> "none", entries |-> <<>>]
NoResp == [net |-> "none", status |-> 0]

\* The consumer has not yet built its sink client.
LokiInit ==
    /\ lkPc = "new"
    /\ lkClient = [urlOK |-> TRUE]
    /\ lkCall = NoCall
    /\ lkReq = <<>>
    /\ lkPosts = <<>>
    /\ lkResp = NoResp
    /\ lkRet = "none"

(* ---- initial state: the loop goroutine has run resetTimer() (line 83) - *)

Init ==
    /\ mainPc = "wait"
    /\ mainSlept = 0
    /\ shutdown = FALSE
    /\ loopPc = "select"
    /\ waited = 0
    /\ msgs = <<>>
    /\ idx = 0
    /\ tmp = NilSlice
    /\ batch = NilSlice
    /\ heap = [a \in Arrs |-> <<>>]
    /\ timer = BatchTimeout
    /\ lf = Frame0
    /\ cb = [s \in Slots |-> Frame0]
    /\ delivered = 0
    /\ poison = {}
    /\ appended = {}
    /\ acks = [m \in Msgs |-> 0]
    /\ batchSends = [m \in Msgs |-> 0]
    /\ flushLog = <<>>
    /\ age = [m \in Msgs |-> 0]
    /\ sinceArm = 0
    /\ sigBatch = {}
    /\ stopBatch = {}
    /\ LokiInit
    /\ LoggerInit
    /\ NatsInit

Running == mainPc # "exited"

(* ---- main goroutine, lines 136-146 ------------------------------------ *)

\* <-sigCh; close(shutdown)
Signal ==
    /\ Running
    /\ mainPc = "wait"
    /\ mainPc' = "sleep"
    /\ mainSlept' = 0
    /\ shutdown' = TRUE
    /\ sigBatch' = BatchRecords
    /\ UNCHANGED <<loopPc, waited, msgs, idx, tmp, batch, heap, timer, lf, cb,
                   delivered, poison, appended, acks, batchSends, flushLog,
                   age, sinceArm, stopBatch>>
    /\ UNCHANGED outside

\* time.Sleep(1 * time.Second) is over: main returns and the process ends.
MainExit ==
    /\ mainPc = "sleep"
    /\ mainSlept = ExitSleep
    /\ mainPc' = "exited"
    /\ UNCHANGED <<mainSlept, shutdown, loopPc, waited, msgs, idx, tmp, batch,
                   heap, timer, lf, cb, delivered, hist>>
    /\ UNCHANGED outside

(* ---- the age timer, lines 70-81 --------------------------------------- *)

\* resetTimer(): batchTimer.Stop() and a new time.AfterFunc.  At most one
\* timer is pending; a callback that already started is not stopped.
resetTimer ==
    /\ timer' = BatchTimeout
    /\ sinceArm' = 0

FreeSlot == CHOOSE s \in Slots : cb[s].pc = "idle" /\ \A t \in Slots : cb[t].pc = "idle" => s <= t

\* The timer expires: the runtime starts the callback on a new goroutine.
TimerFire ==
    /\ Running
    /\ timer = 0
    /\ \E s \in Slots : cb[s].pc = "idle"
    /\ cb' = [cb EXCEPT ![FreeSlot] = [Frame0 EXCEPT !.pc = "check"]]
    /\ timer' = -1
    /\ UNCHANGED <<mainPc, mainSlept, shutdown, loopPc, waited, msgs, idx, tmp,
                   batch, heap, lf, delivered, hist>>
    /\ UNCHANGED outside

\* line 75: if len(batch) > 0
CbCheck(s) ==
    /\ Running
    /\ cb[s].pc = "check"
    /\ cb' = [cb EXCEPT ![s] = IF batch.len > 0
                               THEN [Frame0 EXCEPT !.pc = "call"]
                               ELSE Frame0]
    /\ UNCHANGED <<mainPc, mainSlept, shutdown, loopPc, waited, msgs, idx, tmp,
                   batch, heap, timer, lf, delivered, hist>>
    /\ UNCHANGED outside

\* line 77: processBatch(batch, lokiClient) up to the call of SendBatchLogs
CbCall(s) ==
    /\ Running
    /\ cb[s].pc = "call"
    /\ cb' = [cb EXCEPT ![s] = processBatchCall(cb[s], batch, heap)]
    /\ batchSends' = SendCount(batchSends, cb'[s])
    /\ flushLog' = LogFlush(flushLog, cb'[s], "timer")
    /\ age' = NormAge(age, appended, batchSends')
    /\ UNCHANGED <<mainPc, mainSlept, shutdown, loopPc, waited, msgs, idx, tmp,
                   batch, heap, timer, lf, delivered, poison, appended, acks,
                   sinceArm, sigBatch, stopBatch>>
    /\ UNCHANGED outside

\* SendBatchLogs returns to the callback's processBatch
CbPosted(s) ==
    /\ Running
    /\ cb[s].pc = "posted"
    /\ \E ok \in BOOLEAN : cb' = [cb EXCEPT ![s] = processBatchPosted(cb[s], ok)]
    /\ heap' = Gc(heap, batch, tmp, lf, cb')
    /\ UNCHANGED <<mainPc, mainSlept, shutdown, loopPc, waited, msgs, idx, tmp,
                   batch, timer, lf, delivered, hist>>
    /\ UNCHANGED outside

\* one SendLog of the callback's processBatch
CbIndiv(s) ==
    /\ Running
    /\ cb[s].pc = "indiv"
    /\ \E ok \in BOOLEAN : cb' = [cb EXCEPT ![s] = processBatchIndiv(cb[s], heap, ok)]
    /\ heap' = Gc(heap, batch, tmp, lf, cb')
    /\ UNCHANGED <<mainPc, mainSlept, shutdown, loopPc, waited, msgs, idx, tmp,
                   batch, timer, lf, delivered, hist>>
    /\ UNCHANGED outside

\* line 78, first half: batch[:0] reads batch
CbClearRead(s) ==
    /\ Running
    /\ cb[s].pc = "ret"
    /\ cb' = [cb EXCEPT ![s] = [Frame0 EXCEPT !.pc = "clear", !.v = batch]]
    /\ UNCHANGED <<mainPc, mainSlept, shutdown, loopPc, waited, msgs, idx, tmp,
                   batch, heap, timer, lf, delivered, hist>>
    /\ UNCHANGED outside

\* line 78, second half: batch = ...; the callback returns
CbClearWrite(s) ==
    /\ Running
    /\ cb[s].pc = "clear"
    /\ batch' = Reslice0(cb[s].v)
    /\ cb' = [cb EXCEPT ![s] = Frame0]
    /\ heap' = Gc(heap, batch', tmp, lf, cb')
    /\ UNCHANGED <<mainPc, mainSlept, shutdown, loopPc, waited, msgs, idx, tmp,
                   timer, lf, delivered, hist>>
    /\ UNCHANGED outside

(* ---- the consumer loop, lines 85-133 ---------------------------------- *)

\* line 124: if len(batch) >= batchSize
IsFull(n) == n >= batchSize

\* Faulty variant of the re-arm condition: the timer is armed after every
\* fetch, also when batch is empty.  With it C29 (amended) does not hold.
IsNonEmptyAlways(n) == n >= 0

\* Faulty variant of the re-arm condition: a batch of one record is not
\* re-armed.  With it C4 (amended) does not hold.
IsNonEmptyOffByOne(n) == n > 1

\* line 128: else if len(batch) > 0
IsNonEmpty(n) == n > 0

\* select, case <-shutdown (lines 87-92): flush what is left and return
LoopStop ==
    /\ Running
    /\ loopPc = "select"
    /\ shutdown
    /\ IF batch.len > 0
       THEN loopPc' = "stopFlush" /\ lf' = [Frame0 EXCEPT !.pc = "call"]
       ELSE loopPc' = "done" /\ lf' = lf
    /\ UNCHANGED <<mainPc, mainSlept, shutdown, waited, msgs, idx, tmp, batch,
                   heap, timer, cb, delivered, hist>>
    /\ UNCHANGED outside

\* select, default (line 95): sub.Fetch(batchSize, MaxWait(500ms)) is issued
LoopFetch ==
    /\ Running
    /\ loopPc = "select"
    /\ ~shutdown
    /\ loopPc' = "fetch"
    /\ waited' = 0
    /\ UNCHANGED <<mainPc, mainSlept, shutdown, msgs, idx, tmp, batch, heap,
                   timer, lf, cb, delivered, hist>>
    /\ UNCHANGED outside

\* Fetch returns k messages, 1 <= k <= batchSize, as soon as some are there
FetchMsgs ==
    /\ Running
    /\ loopPc = "fetch"
    /\ \E k \in 1..Min(batchSize, MaxMsgs - delivered) :
          /\ msgs' = [i \in 1..k |-> delivered + i]
          /\ delivered' = delivered + k
    /\ idx' = 1
    /\ loopPc' = "unmarshal"
    /\ waited' = 0
    /\ UNCHANGED <<mainPc, mainSlept, shutdown, tmp, batch, heap, timer, lf, cb,
                   hist>>
    /\ UNCHANGED outside

\* Faulty variant of the timeout branch: the timer is armed anew before the
\* `continue`.  With it C26 does not hold.
FetchTimeoutRearm ==
    /\ Running
    /\ loopPc = "fetch"
    /\ waited = FetchWait
    /\ loopPc' = "select"
    /\ waited' = 0
    /\ resetTimer
    /\ UNCHANGED <<mainPc, mainSlept, shutdown, msgs, idx, tmp, batch, heap,
                   lf, cb, delivered, poison, appended, acks, batchSends,
                   flushLog, age, sigBatch, stopBatch>>
    /\ UNCHANGED outside

\* lines 96-99: nats.ErrTimeout after MaxWait with no message: continue
FetchTimeout ==
    /\ Running
    /\ loopPc = "fetch"
    /\ waited = FetchWait
    /\ loopPc' = "select"
    /\ waited' = 0
    /\ UNCHANGED <<mainPc, mainSlept, shutdown, msgs, idx, tmp, batch, heap,
                   timer, lf, cb, delivered, hist>>
    /\ UNCHANGED outside

\* Faulty variant of the error branch: the goroutine returns instead of
\* sleeping.  With it C27 does not hold.
FetchErrorReturn ==
    /\ Running
    /\ loopPc = "fetch"
    /\ loopPc' = "done"
    /\ waited' = 0
    /\ UNCHANGED <<mainPc, mainSlept, shutdown, msgs, idx, tmp, batch, heap,
                   timer, lf, cb, delivered, hist>>
    /\ UNCHANGED outside

\* lines 100-104: any other error: log, time.Sleep(1s), continue
FetchError ==
    /\ Running
    /\ loopPc = "fetch"
    /\ loopPc' = "errSleep"
    /\ waited' = 0
    /\ UNCHANGED <<mainPc, mainSlept, shutdown, msgs, idx, tmp, batch, heap,
                   timer, lf, cb, delivered, hist>>
    /\ UNCHANGED outside

ErrWake ==
    /\ Running
    /\ loopPc = "errSleep"
    /\ waited = ErrSleep
    /\ loopPc' = "select"
    /\ waited' = 0
    /\ UNCHANGED <<mainPc, mainSlept, shutdown, msgs, idx, tmp, batch, heap,
                   timer, lf, cb, delivered, hist>>
    /\ UNCHANGED outside

\* end of one iteration of `for _, msg := range msgs`
NextMsg ==
    IF idx < Len(msgs)
    THEN idx' = idx + 1 /\ msgs' = msgs /\ loopPc' = "unmarshal"
    ELSE idx' = 0 /\ msgs' = <<>> /\ loopPc' = "check"

\* Faulty variant of the error branch: the message is dropped without
\* msg.Ack().  With it C6 does not hold.
UnmarshalFailNoAck ==
    /\ Running
    /\ loopPc = "unmarshal"
    /\ poison' = poison \cup {msgs[idx]}
    /\ NextMsg
    /\ UNCHANGED <<mainPc, mainSlept, shutdown, waited, tmp, batch, heap, timer,
                   lf, cb, delivered, appended, acks, batchSends, flushLog, age,
                   sinceArm, sigBatch, stopBatch>>
    /\ UNCHANGED outside

\* Faulty variant of the error branch: the `continue` is missing, so the
\* loop goes on to append and acknowledge again.  With it C7 does not hold.
UnmarshalFailNoContinue ==
    /\ Running
    /\ loopPc = "unmarshal"
    /\ poison' = poison \cup {msgs[idx]}
    /\ acks' = [acks EXCEPT ![msgs[idx]] = @ + 1]
    /\ tmp' = batch
    /\ loopPc' = "append"
    /\ UNCHANGED <<mainPc, mainSlept, shutdown, waited, msgs, idx, batch, heap,
                   timer, lf, cb, delivered, appended, batchSends, flushLog, age,
                   sinceArm, sigBatch, stopBatch>>
    /\ UNCHANGED outside

\* lines 109-114: json.Unmarshal fails: log, msg.Ack(), continue
UnmarshalFail ==
    /\ Running
    /\ loopPc = "unmarshal"
    /\ poison' = poison \cup {msgs[idx]}
    /\ acks' = [acks EXCEPT ![msgs[idx]] = @ + 1]
    /\ NextMsg
    /\ UNCHANGED <<mainPc, mainSlept, shutdown, waited, tmp, batch, heap, timer,
                   lf, cb, delivered, appended, batchSends, flushLog, age,
                   sinceArm, sigBatch, stopBatch>>
    /\ UNCHANGED outside

\* lines 109-117: json.Unmarshal succeeds; append(batch, logEntry) reads batch
UnmarshalOk ==
    /\ Running
    /\ loopPc = "unmarshal"
    /\ tmp' = batch
    /\ loopPc' = "append"
    /\ UNCHANGED <<mainPc, mainSlept, shutdown, waited, msgs, idx, batch, heap,
                   timer, lf, cb, delivered, hist>>
    /\ UNCHANGED outside

\* line 117: batch = append(...): the element and the header are written
LoopAppend ==
    /\ Running
    /\ loopPc = "append"
    /\ batch' = AppendSlice(heap, tmp, msgs[idx])
    /\ tmp' = NilSlice
    /\ heap' = Gc(AppendHeap(heap, tmp, msgs[idx]), batch', tmp', lf, cb)
    /\ appended' = appended \cup {msgs[idx]}
    /\ loopPc' = "ack"
    /\ UNCHANGED <<mainPc, mainSlept, shutdown, waited, msgs, idx, timer, lf, cb,
                   delivered, poison, acks, batchSends, flushLog, age, sinceArm,
                   sigBatch, stopBatch>>
    /\ UNCHANGED outside

\* line 120: msg.Ack()
LoopAck ==
    /\ Running
    /\ loopPc = "ack"
    /\ acks' = [acks EXCEPT ![msgs[idx]] = @ + 1]
    /\ NextMsg
    /\ UNCHANGED <<mainPc, mainSlept, shutdown, waited, tmp, batch, heap, timer,
                   lf, cb, delivered, poison, appended, batchSends, flushLog,
                   age, sinceArm, sigBatch, stopBatch>>
    /\ UNCHANGED outside

\* lines 123-131: full: go and flush; non-empty: resetTimer(); else nothing
LoopCheck ==
    /\ Running
    /\ loopPc = "check"
    /\ IF IsFull(batch.len)
       THEN /\ loopPc' = "szFlush"
            /\ lf' = [Frame0 EXCEPT !.pc = "call"]
            /\ UNCHANGED <<timer, sinceArm>>
       ELSE /\ loopPc' = "select"
            /\ lf' = lf
            /\ IF IsNonEmpty(batch.len)
               THEN resetTimer
               ELSE UNCHANGED <<timer, sinceArm>>
    /\ UNCHANGED <<mainPc, mainSlept, shutdown, waited, msgs, idx, tmp, batch,
                   heap, cb, delivered, poison, appended, acks, batchSends,
                   flushLog, age, sigBatch, stopBatch>>
    /\ UNCHANGED outside

InFlush == loopPc \in {"szFlush", "stopFlush"}

\* lines 90 and 125: processBatch(batch, lokiClient) up to SendBatchLogs
LoopCall ==
    /\ Running
    /\ InFlush
    /\ lf.pc = "call"
    /\ lf' = processBatchCall(lf, batch, heap)
    /\ batchSends' = SendCount(batchSends, lf')
    /\ flushLog' = LogFlush(flushLog, lf', IF loopPc = "szFlush" THEN "size" ELSE "stop")
    /\ stopBatch' = IF loopPc = "stopFlush" THEN SeqSet(lf'.handed) ELSE stopBatch
    /\ age' = NormAge(age, appended, batchSends')
    /\ UNCHANGED <<mainPc, mainSlept, shutdown, loopPc, waited, msgs, idx, tmp,
                   batch, heap, timer, cb, delivered, poison, appended, acks,
                   sinceArm, sigBatch>>
    /\ UNCHANGED outside

\* SendBatchLogs returns to the loop's processBatch
LoopPosted ==
    /\ Running
    /\ InFlush
    /\ lf.pc = "posted"
    /\ \E ok \in BOOLEAN : lf' = processBatchPosted(lf, ok)
    /\ heap' = Gc(heap, batch, tmp, lf', cb)
    /\ UNCHANGED <<mainPc, mainSlept, shutdown, loopPc, waited, msgs, idx, tmp,
                   batch, timer, cb, delivered, hist>>
    /\ UNCHANGED outside

\* one SendLog of the loop's processBatch
LoopIndiv ==
    /\ Running
    /\ InFlush
    /\ lf.pc = "indiv"
    /\ \E ok \in BOOLEAN : lf' = processBatchIndiv(lf, heap, ok)
    /\ heap' = Gc(heap, batch, tmp, lf', cb)
    /\ UNCHANGED <<mainPc, mainSlept, shutdown, loopPc, waited, msgs, idx, tmp,
                   batch, timer, cb, delivered, hist>>
    /\ UNCHANGED outside

\* processBatch returned.  Line 92: return.  Line 126: batch[:0] reads batch.
LoopReturn ==
    /\ Running
    /\ InFlush
    /\ lf.pc = "ret"
    /\ lf' = Frame0
    /\ IF loopPc = "stopFlush"
       THEN loopPc' = "done" /\ tmp' = tmp
       ELSE loopPc' = "clear" /\ tmp' = batch
    /\ UNCHANGED <<mainPc, mainSlept, shutdown, waited, msgs, idx, batch, heap,
                   timer, cb, delivered, hist>>
    /\ UNCHANGED outside

\* lines 126-127: batch = ...[:0] is written; resetTimer()
LoopClear ==
    /\ Running
    /\ loopPc = "clear"
    /\ batch' = Reslice0(tmp)
    /\ tmp' = NilSlice
    /\ heap' = Gc(heap, batch', tmp', lf, cb)
    /\ resetTimer
    /\ loopPc' = "select"
    /\ UNCHANGED <<mainPc, mainSlept, shutdown, waited, msgs, idx, lf, cb,
                   delivered, poison, appended, acks, batchSends, flushLog, age,
                   sigBatch, stopBatch>>
    /\ UNCHANGED outside

(* ---- time -------------------------------------------------------------- *)

\* A frame that waits for the sink (an HTTP call is in flight) or does not run
Blocked(f) == f.pc \in {"idle", "posted", "indiv"}

LoopBlocked ==
    \/ loopPc \in {"fetch", "errSleep", "done"}
    \/ InFlush /\ lf.pc \in {"posted", "indiv"}

\* 500 ms pass.  Not before a due timer has fired, a Fetch that reached
\* MaxWait has returned, and a Sleep that is over has ended.
Tick ==
    /\ Running
    /\ LoopBlocked
    /\ \A s \in Slots : Blocked(cb[s])
    /\ timer # 0
    /\ loopPc = "fetch" => waited < FetchWait
    /\ loopPc = "errSleep" => waited < ErrSleep
    /\ mainPc = "sleep" => mainSlept < ExitSleep
    /\ timer' = IF timer > 0 THEN timer - 1 ELSE timer
    /\ waited' = IF loopPc \in {"fetch", "errSleep"} THEN waited + 1 ELSE waited
    /\ mainSlept' = IF mainPc = "sleep" THEN mainSlept + 1 ELSE mainSlept
    /\ sinceArm' = Min(sinceArm + 1, ClockCap)
    /\ age' = [r \in Msgs |-> IF r \in appended /\ batchSends[r] = 0
                              THEN Min(age[r] + 1, ClockCap) ELSE 0]
    /\ UNCHANGED <<mainPc, shutdown, loopPc, msgs, idx, tmp, batch, heap, lf, cb,
                   delivered, poison, appended, acks, batchSends, flushLog,
                   sigBatch, stopBatch>>
    /\ UNCHANGED outside

Next ==
    \/ Signal
    \/ MainExit
    \/ TimerFire
    \/ \E s \in Slots : CbCheck(s)
    \/ \E s \in Slots : CbCall(s)
    \/ \E s \in Slots : CbPosted(s)
    \/ \E s \in Slots : CbIndiv(s)
    \/ \E s \in Slots : CbClearRead(s)
    \/ \E s \in Slots : CbClearWrite(s)
    \/ LoopStop
    \/ LoopFetch
    \/ FetchMsgs
    \/ FetchTimeout
    \/ FetchError
    \/ ErrWake
    \/ UnmarshalFail
    \/ UnmarshalOk
    \/ LoopAppend
    \/ LoopAck
    \/ LoopCheck
    \/ LoopCall
    \/ LoopPosted
    \/ LoopIndiv
    \/ LoopReturn
    \/ LoopClear
    \/ Tick

Spec == Init /\ [][Next]_vars

(* ---- the consumer with a sink that rejects every request -------------- *)

\* SendBatchLogs returns an error to the callback's processBatch
CbRejected(s) ==
    /\ CbPosted(s)
    /\ cb'[s].pc = "indiv"

\* SendLog returns an error to the callback's processBatch
CbIndivRejected(s) ==
    /\ CbIndiv(s)
    /\ cb'[s].failed

\* SendBatchLogs returns an error to the loop's processBatch
LoopRejected ==
    /\ LoopPosted
    /\ lf'.pc = "indiv"

\* SendLog returns an error to the loop's processBatch
LoopIndivRejected ==
    /\ LoopIndiv
    /\ lf'.failed

\* The steps of the loop goroutine other than the results of a Fetch.
LoopStep ==
    \/ LoopFetch
    \/ ErrWake
    \/ UnmarshalFail
    \/ UnmarshalOk
    \/ LoopAppend
    \/ LoopAck
    \/ LoopCheck
    \/ LoopCall
    \/ LoopRejected
    \/ LoopIndivRejected
    \/ LoopReturn
    \/ LoopClear

\* The steps of the callback goroutine in slot s.
CbStep(s) ==
    \/ CbCheck(s)
    \/ CbCall(s)
    \/ CbRejected(s)
    \/ CbIndivRejected(s)
    \/ CbClearRead(s)
    \/ CbClearWrite(s)

\* The consumer while no stop signal arrives and the sink answers every
\* request with an error.
NextSinkDown ==
    \/ TimerFire
    \/ \E s \in Slots : CbCheck(s)
    \/ \E s \in Slots : CbCall(s)
    \/ \E s \in Slots : CbRejected(s)
    \/ \E s \in Slots : CbIndivRejected(s)
    \/ \E s \in Slots : CbClearRead(s)
    \/ \E s \in Slots : CbClearWrite(s)
    \/ LoopFetch
    \/ FetchMsgs
    \/ FetchTimeout
    \/ FetchError
    \/ ErrWake
    \/ UnmarshalFail
    \/ UnmarshalOk
    \/ LoopAppend
    \/ LoopAck
    \/ LoopCheck
    \/ LoopCall
    \/ LoopRejected
    \/ LoopIndivRejected
    \/ LoopReturn
    \/ LoopClear
    \/ Tick

\* Every goroutine that can run does run, time passes, the sink answers, and
\* a Fetch does not fail or time out for ever while published messages wait
\* in the queue.
FairSinkDown ==
    /\ WF_vars(LoopStep)
    /\ \A s \in Slots : WF_vars(CbStep(s))
    /\ WF_vars(TimerFire)
    /\ WF_vars(Tick)
    /\ WF_vars(FetchTimeout)
    /\ SF_vars(FetchMsgs)

SpecSinkDown == Init /\ [][NextSinkDown]_vars /\ FairSinkDown

(* ======================================================================= *)
(* The capture hook: middleware.Logger (internal/middleware/logger.go) in  *)
(* the API process (cmd/api/main.go)                                       *)
(* ======================================================================= *)

\* What an action of the API process leaves alone.
outsideLogger == <<consumerVars, natsVars, lokiVars>>

\* Faulty variant of the classification: image/ is not looked for.  With it
\* C16 (amended) does not hold.
isBinaryContentNoImage(contentType) ==
    IF contentType = <<>>
    THEN FALSE
    ELSE \/ Contains(contentType, "video/")
         \/ Contains(contentType, "audio/")
         \/ Contains(contentType, "application/octet-stream")
         \/ Contains(contentType, "application/pdf")
         \/ Contains(contentType, "application/zip")

\* isBinaryContent, lines 149-160
isBinaryContent(contentType) ==
    IF contentType = <<>>
    THEN FALSE
    ELSE \/ Contains(contentType, "image/")
         \/ Contains(contentType, "video/")
         \/ Contains(contentType, "audio/")
         \/ Contains(contentType, "application/octet-stream")
         \/ Contains(contentType, "application/pdf")
         \/ Contains(contentType, "application/zip")

\* Faulty variant of the trace id: the sentinel is kept, no uuid is
\* generated.  With it C14 does not hold.
ResolveTraceIDKeepZero(t, k) == t

\* lines 52-61: the trace id of the context, or a new uuid for the sentinel
ResolveTraceID(t, k) == IF t = ZeroTraceID THEN NewUuid(k + 1) ELSE t

\* Faulty variant of the read: only the bytes that will be logged are read
\* (and so restored).  With it C32 does not hold.
ReadBodyCapped(contentType, body) ==
    IF ~Contains(contentType, "multipart/form-data")
    THEN SubSeq(Bytes(body), 1, IF Len(Bytes(body)) > bodyCap
                                THEN bodyCap ELSE Len(Bytes(body)))
    ELSE <<>>

\* lines 67-72: the body is read unless the request is a multipart form
ReadBody(contentType, body) ==
    IF ~Contains(contentType, "multipart/form-data") THEN Bytes(body) ELSE <<>>

\* Faulty variant of the cap: a body of exactly the cap is truncated too.
\* With it C15 (amended) does not hold.
TruncateAtCap(b) ==
    IF Len(b) >= bodyCap THEN SubSeq(b, 1, bodyCap) \o TruncMarker ELSE b

\* lines 114-118 and 126-130: string(b[:10000]) + "... (truncated)" or string(b)
Truncate(b) ==
    IF Len(b) > bodyCap THEN SubSeq(b, 1, bodyCap) \o TruncMarker ELSE b

\* lines 111-119 and 122-131: the body kept for a content type
CaptureBody(contentType, b) ==
    IF ~isBinaryContent(contentType) /\ Len(b) > 0 THEN Truncate(b) ELSE <<>>

\* json.Marshal of a string, as a reader decodes it: well-formed UTF-8 is
\* kept, every byte that is no part of a character becomes U+FFFD.
RECURSIVE DecodeString(_)
DecodeString(b) ==
    IF b = <<>> THEN <<>>
    ELSE IF Head(b) = "E1" /\ Len(b) >= 2 /\ b[2] = "E2"
         THEN <<"E">> \o DecodeString(Tail(Tail(b)))
    ELSE IF Head(b) \in {"E1", "E2"}
         THEN <<"U+FFFD">> \o DecodeString(Tail(b))
    ELSE <<Head(b)>> \o DecodeString(Tail(b))

\* a string field tagged omitempty
OmitEmpty(b) ==
    IF b = <<>> THEN Field0 ELSE [present |-> TRUE, value |-> DecodeString(b)]

\* Faulty variant of the serialisation: the trace id is left out.  With it
\* C38 does not hold.
MarshalNoTraceID(e) ==
    [trace_id |-> NoID, status |-> e.Status,
     request_body |-> OmitEmpty(e.RequestBody),
     response_body |-> OmitEmpty(e.ResponseBody),
     service_name |-> e.ServiceName, error |-> e.Error]

\* json.Marshal(entry), line 134, with the tags of LogEntry (lines 18-34)
Marshal(e) ==
    [trace_id |-> e.TraceID, status |-> e.Status,
     request_body |-> OmitEmpty(e.RequestBody),
     response_body |-> OmitEmpty(e.ResponseBody),
     service_name |-> e.ServiceName, error |-> e.Error]

\* cmd/api/main.go lines 58-66: the subject is built from the service name
\* and Logger is installed with both
LoggerNew ==
    /\ lgPc = "boot"
    /\ \E name \in ServiceNames :
          /\ serviceName' = name
          /\ logSubject' = SubjectOf(name)
    /\ lgPc' = "idle"
    /\ UNCHANGED <<served, request, traceID, requestBodyBytes, response,
                   ginErrors, logEntry, entryJSON, jsCalls, uuidCount, outcome>>
    /\ UNCHANGED outsideLogger

\* lines 50-76: a request enters Logger: trace id, X-Trace-ID header, body
LoggerBegin ==
    /\ lgPc = "idle"
    /\ served < MaxReqs
    /\ \E t \in TraceIDs, ct \in RequestContentTypes, b \in Bodies :
          /\ request' = [trace |-> t, contentType |-> ct, body |-> b]
          /\ traceID' = ResolveTraceID(t, uuidCount)
          /\ uuidCount' = IF traceID'.kind = "uuid" THEN uuidCount + 1 ELSE uuidCount
          /\ requestBodyBytes' = ReadBody(ct, b)
    /\ response' = [Response0 EXCEPT !.traceHeader = traceID']
    /\ served' = served + 1
    /\ ginErrors' = FALSE
    /\ logEntry' = Entry0
    /\ entryJSON' = Json0
    /\ jsCalls' = <<>>
    /\ outcome' = "running"
    /\ lgPc' = "next"
    /\ UNCHANGED <<logSubject, serviceName>>
    /\ UNCHANGED outsideLogger

\* line 79: c.Next() returns: the handlers wrote the response through
\* bodyLogWriter (lines 42-45) and may have attached errors
HandlerReturn ==
    /\ lgPc = "next"
    /\ \E st \in Statuses, ct \in ResponseContentTypes, b \in ResponseBodies :
          response' = [response EXCEPT !.status = st, !.contentType = ct, !.body = b]
    /\ \E e \in BOOLEAN : ginErrors' = e
    /\ lgPc' = "entry"
    /\ UNCHANGED <<served, logSubject, serviceName, request, traceID,
                   requestBodyBytes, logEntry, entryJSON, jsCalls, uuidCount,
                   outcome>>
    /\ UNCHANGED outsideLogger

\* line 79: a handler panics: the panic passes through Logger, which has no
\* deferred code, to gin.Recovery (cmd/api/main.go line 64), which answers 500
HandlerPanic ==
    /\ lgPc = "next"
    /\ response' = [response EXCEPT !.status = 500]
    /\ outcome' = "panicked"
    /\ lgPc' = "done"
    /\ UNCHANGED <<served, logSubject, serviceName, request, traceID,
                   requestBodyBytes, ginErrors, logEntry, entryJSON, jsCalls,
                   uuidCount>>
    /\ UNCHANGED outsideLogger

\* lines 81-131: the entry is built
LoggerEntry ==
    /\ lgPc = "entry"
    /\ logEntry' = [TraceID |-> traceID,
                    Status |-> response.status,
                    RequestBody |-> CaptureBody(request.contentType, requestBodyBytes),
                    ResponseBody |-> CaptureBody(response.contentType, response.body),
                    ServiceName |-> serviceName,
                    Error |-> ginErrors]
    /\ lgPc' = "marshal"
    /\ UNCHANGED <<served, logSubject, serviceName, request, traceID,
                   requestBodyBytes, response, ginErrors, entryJSON, jsCalls,
                   uuidCount, outcome>>
    /\ UNCHANGED outsideLogger

\* lines 133-138: json.Marshal; on an error Logger returns
LoggerMarshal ==
    /\ lgPc = "marshal"
    /\ \E ok \in BOOLEAN :
          IF ok
          THEN entryJSON' = Marshal(logEntry) /\ lgPc' = "publish" /\ outcome' = outcome
          ELSE entryJSON' = entryJSON /\ lgPc' = "done" /\ outcome' = "marshalFailed"
    /\ UNCHANGED <<served, logSubject, serviceName, request, traceID,
                   requestBodyBytes, response, ginErrors, logEntry, jsCalls,
                   uuidCount>>
    /\ UNCHANGED outsideLogger

\* Faulty variant of the publish: an error aborts the request with status
\* 500.  With it C17 does not hold.
LoggerPublishAbortOnError ==
    /\ lgPc = "publish"
    /\ \E ok \in BOOLEAN :
          /\ jsCalls' = Append(jsCalls, [subject |-> logSubject, data |-> entryJSON, ok |-> ok])
          /\ outcome' = IF ok THEN "published" ELSE "publishFailed"
          /\ response' = IF ok THEN response ELSE [response EXCEPT !.status = 500]
    /\ lgPc' = "done"
    /\ UNCHANGED <<served, logSubject, serviceName, request, traceID,
                   requestBodyBytes, ginErrors, logEntry, entryJSON, uuidCount>>
    /\ UNCHANGED outsideLogger

\* lines 140-146: js.Publish(subject, entryJSON); an error is dropped
LoggerPublish ==
    /\ lgPc = "publish"
    /\ \E ok \in BOOLEAN :
          /\ jsCalls' = Append(jsCalls, [subject |-> logSubject, data |-> entryJSON, ok |-> ok])
          /\ outcome' = IF ok THEN "published" ELSE "publishFailed"
    /\ lgPc' = "done"
    /\ UNCHANGED <<served, logSubject, serviceName, request, traceID,
                   requestBodyBytes, response, ginErrors, logEntry, entryJSON,
                   uuidCount>>
    /\ UNCHANGED outsideLogger

\* lines 137 and 146: Logger returns (or the panic has left it); the request
\* is over and its locals are gone
LoggerReturn ==
    /\ lgPc = "done"
    /\ request' = Request0
    /\ traceID' = NoID
    /\ requestBodyBytes' = <<>>
    /\ response' = Response0
    /\ ginErrors' = FALSE
    /\ logEntry' = Entry0
    /\ entryJSON' = Json0
    /\ jsCalls' = <<>>
    /\ outcome' = "none"
    /\ lgPc' = "idle"
    /\ UNCHANGED <<served, logSubject, serviceName, uuidCount>>
    /\ UNCHANGED outsideLogger

LoggerNext ==
    \/ LoggerNew
    \/ LoggerBegin
    \/ HandlerReturn
    \/ HandlerPanic
    \/ LoggerEntry
    \/ LoggerMarshal
    \/ LoggerPublish
    \/ LoggerReturn

SpecLogger == Init /\ [][LoggerNext]_vars

(* ======================================================================= *)
(* The NATS client: natsClient.SetupStream and CreatePullConsumer          *)
(* (internal/nats, the same code in nats/client.go), called by the         *)
(* publisher and by the consumer against one JetStream server              *)
(* ======================================================================= *)

\* What an action of a NATS client leaves alone.
outsideNats == <<consumerVars, loggerVars, lokiVars>>

\* The server refuses an update that changes the storage type or the
\* retention policy of a stream.
Updatable(old, new) ==
    /\ old.Name = new.Name
    /\ old.Storage = new.Storage
    /\ old.Retention = new.Retention

\* js.AddStream(cfg) by p: the outcome and the stream afterwards.  A stream
\* that exists with the same configuration is returned as it is; one with
\* another configuration makes the request fail (stream name in use).
AddStream(st, cfg, p, up) ==
    IF ~up THEN [err |-> "no answer", stream |-> st]
    ELSE IF ~st.exists
         THEN [err |-> "", stream |-> [exists |-> TRUE, cfg |-> cfg, by |-> p]]
    ELSE IF st.cfg = cfg THEN [err |-> "", stream |-> st]
    ELSE [err |-> "in use", stream |-> st]

\* js.UpdateStream(cfg) by p
UpdateStream(st, cfg, p, up) ==
    IF ~up THEN [err |-> "no answer", stream |-> st]
    ELSE IF ~st.exists THEN [err |-> "not found", stream |-> st]
    ELSE IF Updatable(st.cfg, cfg)
         THEN [err |-> "", stream |-> [st EXCEPT !.cfg = cfg]]
    ELSE [err |-> "rejected", stream |-> st]

\* js.AddConsumer(stream, cfg) by p: a durable that exists with the same
\* configuration is returned as it is; with another configuration the
\* request fails (consumer name already in use).
AddConsumer(co, cfg, p, up) ==
    IF ~up THEN [err |-> "no answer", consumer |-> co]
    ELSE IF ~co.exists
         THEN [err |-> "", consumer |-> [exists |-> TRUE, cfg |-> cfg, by |-> p]]
    ELSE IF co.cfg = cfg THEN [err |-> "", consumer |-> co]
    ELSE [err |-> "in use", consumer |-> co]

\* The call of a client ends with this error ("" = nil).
Return(c, err) ==
    [c EXCEPT !.pc = "idle",
              !.ret = IF err = "" THEN "nil" ELSE "error",
              !.why = err]

\* A stream an earlier deployment created, before either process starts.
EarlierDeployment ==
    /\ \A p \in Clients : cli[p].calls = 0
    /\ ~jsStream.exists
    /\ \E cfg \in EarlierStreams :
          jsStream' = [exists |-> TRUE, cfg |-> cfg, by |-> "earlier"]
    /\ UNCHANGED <<jsConsumer, created, cli>>
    /\ UNCHANGED outsideNats

\* SetupStream(config), lines 167-170 and 191: js.StreamInfo; any error is
\* taken for "the stream does not exist"
SetupStreamStart(p, config) ==
    /\ cli[p].pc = "idle"
    /\ cli[p].calls < MaxCalls
    /\ \E up \in BOOLEAN :
          cli' = [cli EXCEPT ![p] =
                    [@ EXCEPT !.pc = IF up /\ jsStream.exists
                                     THEN "updateStream" ELSE "addStream",
                              !.calls = @ + 1,
                              !.op = "SetupStream",
                              !.config = config,
                              !.sent = 1,
                              !.filter = "",
                              !.ret = "running",
                              !.why = "",
                              !.lost = ~up,
                              !.wasThere = jsStream.exists]]
    /\ UNCHANGED <<jsStream, jsConsumer, created>>
    /\ UNCHANGED outsideNats

\* SetupStream as both processes call it at start, with the configuration
\* of the environment (NewClient, line 157)
SetupStreamInfo(p) == SetupStreamStart(p, natsConfig)

\* SetupStream called with any configuration
SetupStreamAny(p) == \E config \in NatsConfigs : SetupStreamStart(p, config)

\* c.StreamCfg = streamConfig (lines 189 and 210), reached only when the
\* request to the server returned no error
SetStreamCfg(c, cfg, err) ==
    IF err = "" THEN [c EXCEPT !.hasStreamCfg = TRUE, !.StreamCfg = cfg]
    ELSE c

\* Faulty variant of the add branch: c.StreamCfg is set before the request
\* is made, whatever comes of it.  With it C37 does not hold.
SetupStreamAddSetsFirst(p) ==
    /\ cli[p].pc = "addStream"
    /\ \E up \in BOOLEAN :
          LET cfg == streamConfig(cli[p].config)
              r == AddStream(jsStream, cfg, p, up)
          IN  /\ jsStream' = r.stream
              /\ cli' = [cli EXCEPT ![p] =
                           [SetStreamCfg(Return(@, r.err), cfg, "") EXCEPT
                               !.sent = @ + 1,
                               !.lost = @ \/ ~up]]
    /\ UNCHANGED <<jsConsumer, created>>
    /\ UNCHANGED outsideNats

\* SetupStream, lines 171-190: js.AddStream; c.StreamCfg is set on success
SetupStreamAdd(p) ==
    /\ cli[p].pc = "addStream"
    /\ \E up \in BOOLEAN :
          LET cfg == streamConfig(cli[p].config)
              r == AddStream(jsStream, cfg, p, up)
          IN  /\ jsStream' = r.stream
              /\ cli' = [cli EXCEPT ![p] =
                           [SetStreamCfg(Return(@, r.err), cfg, r.err) EXCEPT
                               !.sent = @ + 1,
                               !.lost = @ \/ ~up]]
    /\ UNCHANGED <<jsConsumer, created>>
    /\ UNCHANGED outsideNats

\* Faulty variant of the update branch: an existing stream is left as it
\* is.  With it C18 does not hold.
SetupStreamUpdateSkipped(p) ==
    /\ cli[p].pc = "updateStream"
    /\ \E up \in BOOLEAN :
          LET err == IF up THEN "" ELSE "no answer"
          IN  cli' = [cli EXCEPT ![p] =
                        [SetStreamCfg(Return(@, err),
                                      streamConfig(cli[p].config), err) EXCEPT
                            !.sent = @ + 1,
                            !.lost = @ \/ ~up]]
    /\ UNCHANGED <<jsStream, jsConsumer, created>>
    /\ UNCHANGED outsideNats

\* SetupStream, lines 191-212: js.UpdateStream; c.StreamCfg is set on success
SetupStreamUpdate(p) ==
    /\ cli[p].pc = "updateStream"
    /\ \E up \in BOOLEAN :
          LET cfg == streamConfig(cli[p].config)
              r == UpdateStream(jsStream, cfg, p, up)
          IN  /\ jsStream' = r.stream
              /\ cli' = [cli EXCEPT ![p] =
                           [SetStreamCfg(Return(@, r.err), cfg, r.err) EXCEPT
                               !.sent = @ + 1,
                               !.lost = @ \/ ~up]]
    /\ UNCHANGED <<jsConsumer, created>>
    /\ UNCHANGED outsideNats

\* CreatePullConsumer has returned err: a direct call ends with it;
\* SubscribePull (lines 283-286) ends with an error and goes on to
\* js.PullSubscribe without one.
AfterCreatePullConsumer(c, err) ==
    IF err = "" /\ c.op = "SubscribePull"
    THEN [c EXCEPT !.pc = "pullSubscribe"]
    ELSE Return(c, err)

\* CreatePullConsumer, lines 230-237 and 251, called directly or by
\* SubscribePull after its own test of StreamCfg (lines 278-283): without
\* StreamCfg an error; js.ConsumerInfo; found: return nil; any error is taken
\* for "the consumer does not exist"
CreatePullConsumerStart(p, op) ==
    /\ cli[p].pc = "idle"
    /\ cli[p].calls < MaxCalls
    /\ \E f \in Filters, up \in BOOLEAN :
          LET c == [cli[p] EXCEPT !.calls = @ + 1,
                                  !.op = op,
                                  !.sent = 0,
                                  !.filter = f,
                                  !.ret = "running",
                                  !.why = "",
                                  !.lost = FALSE,
                                  !.wasThere = jsConsumer.exists]
              asked == [c EXCEPT !.sent = 1]
          IN  cli' = [cli EXCEPT ![p] =
                        IF ~c.hasStreamCfg THEN Return(c, "not set up")
                        ELSE IF up /\ jsConsumer.exists
                             THEN AfterCreatePullConsumer(asked, "")
                        ELSE [asked EXCEPT !.pc = "addConsumer", !.lost = ~up]]
    /\ UNCHANGED <<jsStream, jsConsumer, created>>
    /\ UNCHANGED outsideNats

\* CreatePullConsumer called by the program
CreatePullConsumerInfo(p) == CreatePullConsumerStart(p, "CreatePullConsumer")

\* SubscribePull, lines 277-286
SubscribePullInfo(p) == CreatePullConsumerStart(p, "SubscribePull")

\* CreatePullConsumer, lines 238-251: js.AddConsumer
CreatePullConsumerAdd(p) ==
    /\ cli[p].pc = "addConsumer"
    /\ \E up \in BOOLEAN :
          LET r == AddConsumer(jsConsumer, consumerConfig(consumerName, cli[p].filter), p, up)
          IN  /\ jsConsumer' = r.consumer
              /\ created' = IF r.consumer.exists /\ ~jsConsumer.exists
                            THEN created + 1 ELSE created
              /\ cli' = [cli EXCEPT ![p] =
                           [AfterCreatePullConsumer(@, r.err) EXCEPT
                               !.sent = @ + 1,
                               !.lost = @ \/ ~up]]
    /\ UNCHANGED jsStream
    /\ UNCHANGED outsideNats

\* js.PullSubscribe(subject, durable, nats.Bind(stream, durable)): the
\* library looks the consumer up and refuses a subject that is not the
\* consumer's filter subject.
PullSubscribe(co, subject, up) ==
    IF ~up THEN "no answer"
    ELSE IF ~co.exists THEN "not found"
    ELSE IF co.cfg.FilterSubject # subject THEN "subject mismatch"
    ELSE ""

\* SubscribePull, lines 288-299: js.PullSubscribe bound to the consumer
SubscribePullBind(p) ==
    /\ cli[p].pc = "pullSubscribe"
    /\ \E up \in BOOLEAN :
          cli' = [cli EXCEPT ![p] =
                    [Return(@, PullSubscribe(jsConsumer, cli[p].filter, up))
                        EXCEPT !.sent = @ + 1,
                               !.lost = @ \/ ~up]]
    /\ UNCHANGED <<jsStream, jsConsumer, created>>
    /\ UNCHANGED outsideNats

\* js.Subscribe(subject, handler, Durable(name), AckExplicit(),
\* DeliverAll()) by p: the library creates the durable when it is absent and
\* refuses to bind a push subscription to a durable that exists as a pull
\* consumer.
Subscribe(co, name, subject, p, up) ==
    IF ~up THEN [err |-> "no answer", consumer |-> co]
    ELSE IF co.exists THEN [err |-> "in use", consumer |-> co]
    ELSE [err |-> "",
          consumer |-> [exists |-> TRUE, by |-> p,
                        cfg |-> [Durable |-> name,
                                 AckPolicy |-> "AckExplicitPolicy",
                                 FilterSubject |-> subject,
                                 MaxDeliver |-> -1]]]

\* CreatePushConsumer, lines 254-274: without StreamCfg an error;
\* js.Subscribe
CreatePushConsumer(p) ==
    /\ cli[p].pc = "idle"
    /\ cli[p].calls < MaxCalls
    /\ \E f \in Filters, up \in BOOLEAN :
          LET c == [cli[p] EXCEPT !.calls = @ + 1,
                                  !.op = "CreatePushConsumer",
                                  !.sent = 0,
                                  !.filter = f,
                                  !.ret = "running",
                                  !.why = "",
                                  !.lost = FALSE,
                                  !.wasThere = jsConsumer.exists]
              r == Subscribe(jsConsumer, consumerName, f, p, up)
          IN  IF ~c.hasStreamCfg
              THEN /\ cli' = [cli EXCEPT ![p] = Return(c, "not set up")]
                   /\ UNCHANGED <<jsConsumer, created>>
              ELSE /\ cli' = [cli EXCEPT ![p] =
                                [Return(c, r.err) EXCEPT !.sent = 1,
                                                         !.lost = ~up]]
                   /\ jsConsumer' = r.consumer
                   /\ created' = IF r.consumer.exists /\ ~jsConsumer.exists
                                 THEN created + 1 ELSE created
    /\ UNCHANGED jsStream
    /\ UNCHANGED outsideNats

NatsNext ==
    \/ EarlierDeployment
    \/ \E p \in Clients : SetupStreamInfo(p)
    \/ \E p \in Clients : SetupStreamAdd(p)
    \/ \E p \in Clients : SetupStreamUpdate(p)
    \/ \E p \in Clients : CreatePullConsumerInfo(p)
    \/ \E p \in Clients : CreatePullConsumerAdd(p)

SpecNats == Init /\ [][NatsNext]_vars

\* The client as a package: every exported call that reads or writes
\* StreamCfg, with any arguments, in any order.
NatsClientNext ==
    \/ EarlierDeployment
    \/ \E p \in Clients : SetupStreamAny(p)
    \/ \E p \in Clients : SetupStreamAdd(p)
    \/ \E p \in Clients : SetupStreamUpdate(p)
    \/ \E p \in Clients : CreatePullConsumerInfo(p)
    \/ \E p \in Clients : SubscribePullInfo(p)
    \/ \E p \in Clients : CreatePullConsumerAdd(p)
    \/ \E p \in Clients : SubscribePullBind(p)
    \/ \E p \in Clients : CreatePushConsumer(p)

SpecNatsClient == Init /\ [][NatsClientNext]_vars

(* ======================================================================= *)
(* The sink client: loki.Client (internal/loki) with SendLog,              *)
(* SendBatchLogs and sendToLoki                                            *)
(* ======================================================================= *)

\* What an action of the sink client leaves alone.
outsideLoki == <<consumerVars, loggerVars, natsVars>>

\* fmt.Sprintf("%d", n): the decimal text of n
FormatInt(n) == <<"%d", n>>

\* json.Marshal(entry) of a LogEntry, lines 138 and 234: the fields under
\* their JSON names; it fails on a Latency that JSON cannot express.
MarshalLogEntry(e) ==
    [ok |-> e.Latency = "finite",
     line |-> [trace_id |-> e.TraceID, timestamp |-> e.Timestamp,
               method |-> e.Method, status |-> e.Status,
               latency_ms |-> e.Latency, service_name |-> e.ServiceName,
               environment |-> e.Environment]]

\* lines 143-145 and 239-241: one value of a stream, [timestamp, log line]
ValueOf(e) == <<FormatInt(e.Timestamp), MarshalLogEntry(e).line>>

\* SendLog, lines 148-154: the labels of the one stream
LabelsOfLog(e) ==
    [service |-> e.ServiceName, environment |-> e.Environment,
     trace_id |-> e.TraceID, method |-> e.Method,
     status |-> FormatInt(e.Status)]

\* SendBatchLogs, line 212: fmt.Sprintf("%s-%s-%s", ...)
GroupKey(e) ==
    e.ServiceName \o <<"-">> \o e.Environment \o <<"-">> \o e.TraceID

\* lines 209-214: streamMap, as its keys and the group under each key
StreamKeys(entries) == {GroupKey(entries[i]) : i \in 1..Len(entries)}
streamMap(entries, key) == SelectSeq(entries, LAMBDA e : GroupKey(e) = key)

\* lines 224-229: labels from the first entry of the group
LabelsOfGroup(group) ==
    [service |-> group[1].ServiceName, environment |-> group[1].Environment,
     trace_id |-> group[1].TraceID]

\* Faulty variant of the values: only the first record of a group is kept.
\* With it C21 (amended) does not hold.
ValuesOfGroupFirstOnly(group) ==
    LET kept == SelectSeq(group, LAMBDA e : MarshalLogEntry(e).ok)
    IN  [i \in 1..(IF Len(kept) > 0 THEN 1 ELSE 0) |-> ValueOf(kept[i])]

\* lines 232-242: the values of a group; an entry that cannot be marshaled
\* is skipped
ValuesOfGroup(group) ==
    LET kept == SelectSeq(group, LAMBDA e : MarshalLogEntry(e).ok)
    IN  [i \in 1..Len(kept) |-> ValueOf(kept[i])]

\* lines 218-248: `for _, group := range streamMap` visits the keys in an
\* order the runtime picks; these are the orders.
RangeOrders(keys) ==
    {o \in [1..Cardinality(keys) -> keys] :
        \A i, j \in 1..Cardinality(keys) : o[i] = o[j] => i = j}

\* lines 217-253: the streams of the push request, for one order of the map
StreamsOf(entries, order) ==
    [i \in 1..Len(order) |->
        [Stream |-> LabelsOfGroup(streamMap(entries, order[i])),
         Values |-> ValuesOfGroup(streamMap(entries, order[i]))]]

\* json.Marshal(req), line 173, with the tag of PushRequest (line 116)
MarshalPush(streams) == [streams |-> streams]

\* Faulty variant of the status test: 400 itself passes.  With it C20
\* (amended) does not hold.
IsErrorStatusAbove(status) == status > 400

\* line 194: resp.StatusCode >= 400
IsErrorStatus(status) == status >= 400

\* loki.NewClient, lines 126-133 (cmd/comsumer/main.go line 49): the URL
\* comes from the configuration and need not be one http.NewRequest takes.
LokiNewClient ==
    /\ lkPc = "new"
    /\ \E ok \in BOOLEAN : lkClient' = [urlOK |-> ok]
    /\ lkPc' = "idle"
    /\ UNCHANGED <<lkCall, lkReq, lkPosts, lkResp, lkRet>>
    /\ UNCHANGED outsideLoki

\* Client.SendLog, lines 136-168, up to the call of sendToLoki: an entry
\* that cannot be marshaled ends the call with an error.
SendLog ==
    /\ lkPc = "idle"
    /\ \E e \in LogEntries :
         /\ lkCall' = [op |-> "SendLog", entries |-> <<e>>]
         /\ IF MarshalLogEntry(e).ok
            THEN /\ lkReq' = << [Stream |-> LabelsOfLog(e),
                                 Values |-> <<ValueOf(e)>>] >>
                 /\ lkPc' = "send"
                 /\ lkRet' = "none"
            ELSE /\ lkReq' = <<>>
                 /\ lkPc' = "done"
                 /\ lkRet' = "error"
    /\ UNCHANGED <<lkClient, lkPosts, lkResp>>
    /\ UNCHANGED outsideLoki

\* Client.SendBatchLogs, lines 203-255, up to the call of sendToLoki: an
\* empty list ends the call with nil.
SendBatchLogs ==
    /\ lkPc = "idle"
    /\ \E entries \in EntryLists :
         /\ lkCall' = [op |-> "SendBatchLogs", entries |-> entries]
         /\ IF Len(entries) = 0
            THEN /\ lkReq' = <<>>
                 /\ lkPc' = "done"
                 /\ lkRet' = "nil"
            ELSE /\ \E order \in RangeOrders(StreamKeys(entries)) :
                        lkReq' = StreamsOf(entries, order)
                 /\ lkPc' = "send"
                 /\ lkRet' = "none"
    /\ UNCHANGED <<lkClient, lkPosts, lkResp>>
    /\ UNCHANGED outsideLoki

\* Client.sendToLoki, lines 172-200: http.NewRequest refuses the URL, or Do
\* sends the payload once and the call returns by what came back: a
\* transport error, or a response whose status is tested at line 194.
sendToLoki ==
    /\ lkPc = "send"
    /\ IF ~lkClient.urlOK
       THEN /\ lkRet' = "error"
            /\ UNCHANGED <<lkPosts, lkResp>>
       ELSE /\ lkPosts' = Append(lkPosts, MarshalPush(lkReq))
            /\ \/ /\ lkResp' = [net |-> "failed", status |-> 0]
                  /\ lkRet' = "error"
               \/ \E status \in LokiStatuses :
                     /\ lkResp' = [net |-> "ok", status |-> status]
                     /\ lkRet' = IF IsErrorStatus(status)
                                 THEN "error" ELSE "nil"
    /\ lkPc' = "done"
    /\ UNCHANGED <<lkClient, lkCall, lkReq>>
    /\ UNCHANGED outsideLoki

\* The caller has the result; the client is ready for the next call.
LokiReturn ==
    /\ lkPc = "done"
    /\ lkPc' = "idle"
    /\ lkCall' = NoCall
    /\ lkReq' = <<>>
    /\ lkPosts' = <<>>
    /\ lkResp' = NoResp
    /\ lkRet' = "none"
    /\ UNCHANGED lkClient
    /\ UNCHANGED outsideLoki

LokiNext ==
    \/ LokiNewClient
    \/ SendLog
    \/ SendBatchLogs
    \/ sendToLoki
    \/ LokiReturn

SpecLoki == Init /\ [][LokiNext]_vars

(* ======================================================================= *)
(* The flush path end to end: the consumer (cmd/comsumer/main.go) and the  *)
(* sink client it calls (internal/loki).  The two share no variable, so    *)
(* each is explored from the initial state while the other is at rest.     *)
(* ======================================================================= *)

\* The consumer has not taken a step.
ConsumerAtStart ==
    /\ mainPc = "wait"
    /\ ~shutdown
    /\ loopPc = "select"
    /\ delivered = 0
    /\ timer = BatchTimeout
    /\ sinceArm = 0
    /\ \A s \in Slots : cb[s] = Frame0

\* The sink client has not taken a step.
ClientAtStart == lkPc = "new"

\* The consumer runs.
ConsumerNext == ClientAtStart /\ Next

\* The sink client is called.
ClientNext == ConsumerAtStart /\ LokiNext

FlushPathNext ==
    \/ ConsumerNext
    \/ ClientNext

SpecFlushPath == Init /\ [][FlushPathNext]_vars

(* ======================================================================= *)
(* Claims                                                                  *)
(* ======================================================================= *)

Frames == {lf} \cup {cb[s] : s \in Slots}

IsPrefix(p, q) == Len(p) <= Len(q) /\ \A i \in 1..Len(p) : p[i] = q[i]

\* A record that is in batch (or in the slice the loop is about to write
\* back) and that no SendBatchLogs call has carried yet.
Unflushed(r) == r \in appended /\ batchSends[r] = 0

InMsgLoop == loopPc \in {"unmarshal", "append", "ack"}

\* C1: whatever the interleaving of the size flush, the timer callback and
\* the shutdown flush, every record is handed to SendBatchLogs at most once.
C1_FlushedAtMostOnce == \A r \in Msgs : batchSends[r] <= 1

\* C2: a record that was appended and acknowledged is never dropped before a
\* flush has handed it to the sink: until then it is still in batch (or in
\* the slice the loop's pending append writes back).
C2_NoRecordDiscarded ==
    \A r \in Msgs :
        Unflushed(r) => r \in BatchRecords \cup SeqSet(Elems(heap, tmp))

\* C3: batch never holds more than batchSize records and no flush hands the
\* sink more than batchSize records.
C3_BatchBounded ==
    /\ batch.len <= batchSize
    /\ \A i \in 1..Len(flushLog) : flushLog[i].n <= batchSize

\* C4 (as stated): no record stays in batch without being flushed for longer
\* than batchTimeout after it was appended.
C4_FlushedWithinTimeoutOfAppend ==
    \A r \in BatchRecords : Unflushed(r) => age[r] <= BatchTimeout

\* C4 (amended): a record waits in batch without being flushed no longer than
\* batchTimeout after the most recent re-arm of the timer: one that is older
\* than batchTimeout is there only because resetTimer() ran at most
\* batchTimeout ago.  The deadline runs from the last re-arm, not from the
\* append of the first record.
C4_FlushedWithinTimeoutOfRearm ==
    \A r \in BatchRecords :
        Unflushed(r) /\ age[r] > BatchTimeout => sinceArm <= BatchTimeout

\* C4 witness: a record older than batchTimeout is still waiting in batch,
\* because a later iteration re-armed the timer.
C4_Witness ==
    \E r \in BatchRecords :
        Unflushed(r) /\ age[r] > BatchTimeout /\ timer > 0 /\ sinceArm <= BatchTimeout

\* C5: in every processBatch, after SendBatchLogs failed the records given to
\* SendLog are the records of that batch, once each and in order, up to the
\* end whatever the individual results; after it succeeded there are none.
C5_FallbackSendsBatch ==
    \A f \in Frames :
        /\ IsPrefix(f.indiv, f.handed)
        /\ f.pc = "ret" /\ ~f.ok => f.indiv = f.handed
        /\ f.ok => f.indiv = <<>>

\* C6: a message that does not unmarshal is acknowledged exactly once and is
\* never appended, and once the loop is through the messages of a fetch every
\* other message of that and of all earlier fetches was appended and
\* acknowledged.
C6_PoisonAckedAndSkipped ==
    /\ \A m \in poison :
          /\ acks[m] = 1
          /\ m \notin appended
          /\ \A a \in Arrs : m \notin SeqSet(heap[a])
    /\ ~InMsgLoop =>
          \A m \in 1..delivered : m \notin poison => m \in appended /\ acks[m] = 1

\* C6 witness: a fetch with a poison message first and a good message after
\* it has been processed.
C6_Witness ==
    /\ loopPc = "check"
    /\ \E m \in poison : m + 1 \in appended /\ acks[m] = 1 /\ acks[m + 1] = 1

\* Messages of the current fetch the loop has finished with.
Processed(m) ==
    /\ m <= delivered
    /\ InMsgLoop => m < msgs[idx]

\* C7: every fetched message is acknowledged exactly once, within the
\* iteration that fetched it: no message is acknowledged twice or before it
\* was fetched, and outside the message loop (so at every Fetch) none is
\* left unacknowledged, whatever happened to the flushes.
C7_AckedExactlyOnce ==
    \A m \in Msgs :
        /\ acks[m] <= 1
        /\ Processed(m) => acks[m] = 1
        /\ m > delivered => acks[m] = 0

\* C7 witness: the loop is about to fetch again after a flush whose batch send
\* and individual sends failed, with a poison message among those fetched.
C7_Witness ==
    /\ loopPc = "fetch"
    /\ delivered = MaxMsgs
    /\ poison # {}
    /\ \E s \in Slots : cb[s].failed /\ cb[s].pc = "ret"
    /\ \A m \in Msgs : acks[m] = 1

\* C8: the records of the shutdown flush are sent to the sink by that flush
\* only.
C8_ShutdownFlushOnly == \A r \in stopBatch : batchSends[r] = 1

\* C9: when the process exits the final flush is over: the loop has returned
\* and every record that was in batch at the signal has been handed to the
\* sink.
C9_ExitAfterFinalFlush ==
    mainPc = "exited" /\ sigBatch # {} =>
        /\ loopPc = "done"
        /\ \A r \in sigBatch : batchSends[r] >= 1

\* Scenario 1 scaled to the model: one and a half batches are published.
Scenario1Records == batchSize + batchSize \div 2

\* The scenario is over: all its records were fetched and unmarshalled, no
\* shutdown, the first flush came from the size check (the records arrived
\* faster than the age timer), nothing is in flight and batch is empty.
Scenario1Done ==
    /\ delivered = Scenario1Records
    /\ appended = 1..Scenario1Records
    /\ ~shutdown
    /\ loopPc = "fetch"
    /\ \A s \in Slots : cb[s].pc = "idle"
    /\ batch.len = 0
    /\ Len(flushLog) > 0
    /\ flushLog[1].by = "size"

\* C10: in scenario 1 there are exactly two flush calls, the first with
\* batchSize records and the second with the rest.
C10_TwoFlushes ==
    Scenario1Done =>
        /\ Len(flushLog) = 2
        /\ flushLog[1].n = batchSize
        /\ flushLog[2].n = Scenario1Records - batchSize

\* Scenario 2: one record was published and appended, nothing else arrived
\* and there is no stop signal.
Scenario2 ==
    /\ delivered = 1
    /\ appended = {1}
    /\ ~shutdown

\* C11, the count: in scenario 2 there is at most one flush call, it carries
\* exactly the one record, and no later flush carries that record again.
C11_OneFlushOfOne ==
    Scenario2 =>
        /\ Len(flushLog) <= 1
        /\ batchSends[1] <= 1
        /\ \A i \in 1..Len(flushLog) : flushLog[i].n = 1

\* C11: in scenario 2 exactly one flush call with exactly the one record
\* occurs, batchTimeout after the record was appended (not later: the record
\* never waits longer; not earlier: the step that hands it to the sink is
\* taken at age batchTimeout), and no later flush sends it again.
C11_OneFlushAtTimeout ==
    /\ [](C11_OneFlushOfOne)
    /\ [](Scenario2 /\ Unflushed(1) => age[1] <= BatchTimeout)
    /\ [][Scenario2 /\ batchSends[1] = 0 /\ batchSends'[1] = 1
             => age[1] = BatchTimeout]_vars

\* A flush attempt is under way: some processBatch has called the sink and
\* the statement that clears batch after it has not finished.
FlushInProgress ==
    \/ lf.pc \in {"posted", "indiv", "ret"}
    \/ loopPc = "clear"
    \/ \E s \in Slots : cb[s].pc \in {"posted", "indiv", "ret", "clear"}

\* C12: once a flush attempt (by size, by the timer or by shutdown) is over,
\* whatever the sink answered, batch holds none of the records it carried,
\* and no record is carried by a later flush.
C12_EmptyAfterFlush ==
    /\ ~FlushInProgress => \A r \in BatchRecords : batchSends[r] = 0
    /\ \A r \in Msgs : batchSends[r] <= 1

(* ---- claims about the capture hook (SpecLogger) ------------------------ *)

\* Logger is handling a request or has just finished one.
InRequest == lgPc \in {"next", "entry", "marshal", "publish", "done"}

\* C13 (as stated): a request that Logger has finished has produced exactly
\* one published record, on the subject logs.<service-name>, whatever the
\* handler did.
C13_ExactlyOnePublished ==
    lgPc = "done" =>
        /\ Len(jsCalls) = 1
        /\ jsCalls[1].subject = <<"logs", ".", serviceName>>

\* C13 (amended): a request never produces two records; exactly one
\* js.Publish call, on the subject logs.<service-name> and carrying the
\* record of this service, is made when the handlers return and the record
\* serializes, and none when a handler panics or serialization fails.
C13_AtMostOnePublished ==
    /\ Len(jsCalls) <= 1
    /\ \A i \in 1..Len(jsCalls) :
          /\ jsCalls[i].subject = <<"logs", ".", serviceName>>
          /\ jsCalls[i].data.service_name = serviceName
    /\ lgPc = "done" =>
          /\ outcome \in {"published", "publishFailed"} => Len(jsCalls) = 1
          /\ outcome \in {"panicked", "marshalFailed"} => Len(jsCalls) = 0

\* C13 witness: the second request of the process has published its record.
C13_Witness ==
    /\ lgPc = "done"
    /\ served = MaxReqs
    /\ outcome = "published"
    /\ Len(jsCalls) = 1

\* C14: from the moment Logger has set it, the response carries a non-empty
\* X-Trace-ID: the trace id of the context when that is not the all-zero
\* sentinel, otherwise an identifier generated for this request that no
\* earlier request was given.
C14_TraceHeaderSet ==
    /\ [](InRequest =>
            /\ response.traceHeader # NoID
            /\ request.trace # ZeroTraceID => response.traceHeader = request.trace
            /\ request.trace = ZeroTraceID =>
                  /\ response.traceHeader.kind = "uuid"
                  /\ response.traceHeader.n = uuidCount)
    /\ [][lgPc = "idle" /\ lgPc' = "next" /\ request'.trace = ZeroTraceID
             => response'.traceHeader.n > uuidCount]_vars

\* C14 witness: two requests without a trace context, the second of which
\* ended in a panic, each with an identifier of its own.
C14_Witness ==
    /\ lgPc = "done"
    /\ outcome = "panicked"
    /\ request.trace = ZeroTraceID
    /\ uuidCount = MaxReqs
    /\ response.traceHeader = [kind |-> "uuid", n |-> MaxReqs]

\* The classification the claims name: the header contains one of these.
ClaimedBinary(ct) ==
    \E m \in {"image/", "video/", "audio/", "application/octet-stream",
              "application/pdf", "application/zip"} : m \in SeqSet(ct)

ClaimedMultipart(ct) == "multipart/form-data" \in SeqSet(ct)

RECURSIVE FirstBytes(_, _)
FirstBytes(text, n) ==
    IF text = <<>> \/ n = 0 THEN <<>>
    ELSE IF Len(Utf8(Head(text))) <= n
         THEN <<Head(text)>> \o FirstBytes(Tail(text), n - Len(Utf8(Head(text))))
         ELSE <<"U+FFFD">>

C16_BinaryRequestNoBodies ==
    \A i \in 1..Len(jsCalls) :
        ClaimedBinary(request.contentType) =>
            /\ ~jsCalls[i].data.request_body.present
            /\ ~jsCalls[i].data.response_body.present

\* C16 (amended): the request body is absent when the request's
\* Content-Type is binary, and the response body is absent when the
\* response's Content-Type is binary; a non-empty response of a non-binary
\* type is recorded also for a binary request.
C16_BodiesByOwnContentType ==
    \A i \in 1..Len(jsCalls) :
        /\ ClaimedBinary(request.contentType) =>
              ~jsCalls[i].data.request_body.present
        /\ ClaimedBinary(response.contentType) =>
              ~jsCalls[i].data.response_body.present
        /\ ~ClaimedBinary(response.contentType) /\ response.body # <<>> =>
              jsCalls[i].data.response_body.present

\* C16 witness: a binary request with a body, answered with text.
C16_Witness ==
    /\ lgPc = "done"
    /\ outcome = "published"
    /\ request.contentType = <<"image/", "png">>
    /\ request.body # <<>>
    /\ ~jsCalls[1].data.request_body.present
    /\ jsCalls[1].data.response_body.present

\* A step of Logger after the handlers have returned leaves the response
\* (status, headers, body) as it is; a failed serialization ends Logger with
\* no publish, and a publish, failed or not, ends it after that one call.
AfterHandlerStep ==
    lgPc \in {"entry", "marshal", "publish"} =>
        /\ response' = response
        /\ Len(jsCalls') <= 1
        /\ lgPc = "publish" => lgPc' = "done"
        /\ lgPc = "marshal" /\ lgPc' = "done" => Len(jsCalls') = 0

\* C17: a failure to serialize the record or to publish it never changes
\* the request's outcome: the response is the one the handlers produced,
\* whether serialization and publish succeed or fail, and Logger returns
\* without a second publish.
C17_FailureLeavesResponse == [][AfterHandlerStep]_vars

\* C17 witness: the publish failed and the client has its 200 response.
C17_Witness ==
    /\ lgPc = "done"
    /\ outcome = "publishFailed"
    /\ response.status = 200
    /\ response.body # <<>>
    /\ response.traceHeader # NoID

(* ---- claims about the NATS client (SpecNats) --------------------------- *)

\* The stream carries the requested subjects, retention, storage, max age
\* and replica count.
StreamAsRequested ==
    /\ jsStream.exists
    /\ jsStream.cfg.Name = "logs"
    /\ jsStream.cfg.Subjects = <<"logs.>">>
    /\ jsStream.cfg.Retention = "WorkQueuePolicy"
    /\ jsStream.cfg.Storage = "file"
    /\ jsStream.cfg.MaxAge = "168h"
    /\ jsStream.cfg.Replicas = 1

\* C18: SetupStream creates the stream when it is absent and otherwise
\* updates it: once any call of either process has succeeded, in whatever
\* order and interleaving the two processes call it, the stream exists with
\* exactly the requested configuration; and no call fails because the other
\* process created the stream first: a call fails only when the server did
\* not answer or refused to change a stream an earlier deployment left.
C18_SetupStreamIdempotent ==
    /\ (\E p \in Clients : cli[p].hasStreamCfg) => StreamAsRequested
    /\ \A p \in Clients :
          cli[p].op = "SetupStream" /\ cli[p].ret = "error" =>
              \/ cli[p].why = "no answer"
              \/ cli[p].why \in {"in use", "rejected"} /\ jsStream.by = "earlier"

\* C18 witness: the consumer found no stream, the publisher created it
\* first, and the consumer's call succeeded all the same; both processes
\* have set up the stream.
C18_Witness ==
    /\ jsStream.by = "api"
    /\ cli["api"].hasStreamCfg
    /\ cli["consumer"].hasStreamCfg
    /\ cli["consumer"].op = "SetupStream"
    /\ cli["consumer"].pc = "idle"
    /\ cli["consumer"].ret = "nil"
    /\ ~cli["consumer"].wasThere
    /\ ~cli["consumer"].lost

\* A later call: CreatePullConsumer by a client that has set up the stream,
\* started when the consumer existed, with every request answered.
LaterCall(p) ==
    /\ cli[p].op = "CreatePullConsumer"
    /\ cli[p].pc = "idle"
    /\ cli[p].hasStreamCfg
    /\ cli[p].wasThere
    /\ ~cli[p].lost

\* The step that creates the consumer gives it the name and the filter
\* subject of the call that creates it.
ConsumerCreatedAsCalled ==
    ~jsConsumer.exists /\ jsConsumer'.exists =>
        \E p \in Clients :
            /\ cli[p].pc = "addConsumer"
            /\ jsConsumer'.by = p
            /\ jsConsumer'.cfg.Durable = "loki-consumer"
            /\ jsConsumer'.cfg.FilterSubject = cli[p].filter

\* A consumer that exists is not changed by any step.
ConsumerUnchanged == jsConsumer.exists => jsConsumer' = jsConsumer

\* C19: the first call creates a durable consumer with explicit
\* acknowledgment, the filter subject of that call and MaxDeliver = -1; a
\* later call with the same name succeeds, creates no second consumer and
\* leaves the configuration of the existing one unchanged.
C19_CreatePullConsumerIdempotent ==
    /\ [](jsConsumer.exists =>
            /\ jsConsumer.cfg.AckPolicy = "AckExplicitPolicy"
            /\ jsConsumer.cfg.MaxDeliver = -1)
    /\ [](created <= 1)
    /\ [](\A p \in Clients : LaterCall(p) => cli[p].ret = "nil")
    /\ [][ConsumerCreatedAsCalled]_vars
    /\ [][ConsumerUnchanged]_vars

\* C19 witness: a later call with another filter subject has succeeded and
\* the consumer the other process created is as it was.
C19_Witness ==
    /\ created = 1
    /\ jsConsumer.by = "api"
    /\ LaterCall("consumer")
    /\ cli["consumer"].ret = "nil"
    /\ cli["consumer"].filter # jsConsumer.cfg.FilterSubject

\* A call of the sink client has returned.
SinkCallDone == lkPc = "done"

\* The calls that end before sendToLoki reaches Do: SendBatchLogs of an
\* empty list (nil), SendLog of an entry json.Marshal refuses (error), and
\* any call of a client whose URL http.NewRequest refuses (error).
EndsBeforePost ==
    \/ lkCall.op = "SendBatchLogs" /\ lkCall.entries = <<>>
    \/ lkCall.op = "SendLog" /\ ~MarshalLogEntry(lkCall.entries[1]).ok
    \/ ~lkClient.urlOK

\* The result the claim gives for what the one POST met.
ResultByStatus ==
    /\ (lkResp.net = "failed" \/ (lkResp.net = "ok" /\ lkResp.status >= 400))
          => lkRet = "error"
    /\ (lkResp.net = "ok" /\ lkResp.status < 400) => lkRet = "nil"

\* C20 (as stated): every returned SendLog or SendBatchLogs call has made
\* exactly one HTTP POST, and it returned an error if the request failed at
\* network level or the status was >= 400, and nil for a status below 400.
C20_ExactlyOnePost ==
    SinkCallDone => /\ Len(lkPosts) = 1
                    /\ ResultByStatus

\* C20 (amended): a returned call has made no POST when it is SendBatchLogs
\* of an empty list (it returned nil), SendLog of an entry that cannot be
\* marshaled (error) or a call on a URL that cannot make a request (error);
\* every other call has made exactly one POST, of the request it built, and
\* returned an error if the request failed at network level or the status
\* was >= 400, and nil for every status below 400.
C20_OnePostUnlessEndedBefore ==
    SinkCallDone =>
        IF EndsBeforePost
        THEN /\ lkPosts = <<>>
             /\ lkResp = NoResp
             /\ lkRet = IF lkCall.op = "SendBatchLogs" /\ lkCall.entries = <<>>
                        THEN "nil" ELSE "error"
        ELSE /\ lkPosts = <<MarshalPush(lkReq)>>
             /\ lkResp.net \in {"failed", "ok"}
             /\ ResultByStatus

\* A batch send met status 400 on its one POST and returned an error.
C20_Witness ==
    /\ SinkCallDone
    /\ lkCall.op = "SendBatchLogs"
    /\ Len(lkCall.entries) = 2
    /\ Len(lkPosts) = 1
    /\ lkResp = [net |-> "ok", status |-> 400]
    /\ lkRet = "error"

\* A SendBatchLogs call has built its push request (lkReq holds its streams).
BatchRequestBuilt ==
    /\ lkPc \in {"send", "done"}
    /\ lkCall.op = "SendBatchLogs"
    /\ lkCall.entries # <<>>

\* The positions of the batch that `place` puts in stream k, in batch order.
PlacedIn(place, k) ==
    SelectSeq([i \in 1..Len(lkCall.entries) |-> i], LAMBDA i : place[i] = k)

\* The ways to place every position of the batch in one stream of lkReq.
Placements == [1..Len(lkCall.entries) -> 1..Len(lkReq)]

\* Stream k is labelled by the first record placed in it.
LabelledByFirst(place, k) ==
    /\ PlacedIn(place, k) # <<>>
    /\ LET first == lkCall.entries[PlacedIn(place, k)[1]]
       IN  lkReq[k].Stream = [service |-> first.ServiceName,
                              environment |-> first.Environment,
                              trace_id |-> first.TraceID]

\* The number of streams is the number of distinct grouping keys.
OneStreamPerKey ==
    Len(lkReq) = Cardinality({GroupKey(lkCall.entries[i]) :
                                 i \in 1..Len(lkCall.entries)})

MarshaledIn(place, k) ==
    SelectSeq(PlacedIn(place, k),
              LAMBDA i : MarshalLogEntry(lkCall.entries[i]).ok)

InStream(i, k) ==
    \E n \in 1..Len(lkReq[k].Values) :
        lkReq[k].Values[n] = ValueOf(lkCall.entries[i])

\* C22: two records of a batch are in the same stream of the request if and
\* only if they agree on service name, environment and trace id, and every
\* value of a stream carries the service, environment and trace id named in
\* the stream's labels.
C22_SameStreamIffSameLabels ==
    BatchRequestBuilt =>
        /\ \A i, j \in 1..Len(lkCall.entries) :
              (MarshalLogEntry(lkCall.entries[i]).ok
                 /\ MarshalLogEntry(lkCall.entries[j]).ok) =>
              ((\E k \in 1..Len(lkReq) : InStream(i, k) /\ InStream(j, k))
                 <=> /\ lkCall.entries[i].ServiceName = lkCall.entries[j].ServiceName
                     /\ lkCall.entries[i].Environment = lkCall.entries[j].Environment
                     /\ lkCall.entries[i].TraceID = lkCall.entries[j].TraceID)
        /\ \A k \in 1..Len(lkReq) : \A n \in 1..Len(lkReq[k].Values) :
              /\ lkReq[k].Values[n][2].service_name = lkReq[k].Stream.service
              /\ lkReq[k].Values[n][2].environment = lkReq[k].Stream.environment
              /\ lkReq[k].Values[n][2].trace_id = lkReq[k].Stream.trace_id

(* ---- claims about the drain loop and the age timer (Spec) -------------- *)

\* A timer callback has handed batch to the sink and has not yet finished
\* the statement that clears batch.
CallbackFlushing ==
    \E s \in Slots : cb[s].pc \in {"posted", "indiv", "ret", "clear"}

\* A flush was decided (len(batch) was tested) and processBatch has not
\* yet been called with batch.
FlushTriggered == \E f \in Frames : f.pc = "call"

\* One step of the consumer under mutual exclusion of the flush: nothing is
\* appended while a callback's flush is in progress, and batch does not
\* change between the trigger of a flush and the call that sends it.
C23_SerializedStep ==
    /\ CallbackFlushing => appended' = appended
    /\ FlushTriggered => Elems(heap', batch') = Elems(heap, batch)

\* C23: the timer callback and the drain loop never work on batch at the
\* same time: no record is appended while a flush is in progress, and a flush
\* sends exactly the records batch held when the flush was triggered.
C23_FlushSerialized == [][C23_SerializedStep]_vars

\* One step of the loop around a size flush: a full batch at the check takes
\* the loop into the flush; the loop comes back to its select from a size
\* flush only with batch empty and the timer armed anew; and when the loop
\* clears batch, every record appended so far has been handed to the sink.
C24_SizeFlushStep ==
    /\ (loopPc = "check" /\ batch.len >= batchSize /\ loopPc' # "check")
          => loopPc' = "szFlush"
    /\ (loopPc = "szFlush" /\ loopPc' # "szFlush") => loopPc' = "clear"
    /\ (loopPc = "clear" /\ loopPc' # "clear")
          => /\ loopPc' = "select"
             /\ batch'.len = 0
             /\ timer' = BatchTimeout
    /\ (loopPc = "szFlush" /\ loopPc' = "clear")
          => \A r \in appended : batchSends[r] >= 1

\* C24: when the messages of a fetch leave batch with batchSize or more
\* records, the loop flushes batch, clears it and re-arms the timer before
\* its next fetch, whatever the time left on the timer.
C24_SizeFlushBeforeNextFetch == [][C24_SizeFlushStep]_vars

\* The records a callback hands to the sink in this step that no flush has
\* carried before.
FreshlyHanded(s) ==
    {r \in SeqSet(cb'[s].handed) : batchSends[r] = 0}

\* One step of the age timer as the claim has it: the check after an append
\* that leaves batch non-empty and below batchSize arms the timer for the
\* full batchTimeout; a callback that hands batch to the sink does so
\* batchTimeout after the most recent append; and it hands over a non-empty
\* batch only.
C25_DebounceStep ==
    /\ (loopPc = "check" /\ loopPc' = "select"
           /\ batch.len > 0 /\ batch.len < batchSize)
          => timer' = BatchTimeout
    /\ \A s \in Slots :
          (cb[s].pc = "call" /\ cb'[s].pc = "posted") =>
             /\ cb'[s].handed # <<>>
             /\ \A r \in FreshlyHanded(s) : age[r] >= BatchTimeout
             /\ \E r \in FreshlyHanded(s) : age[r] = BatchTimeout

\* C25: the age timer is debounced: an append that leaves batch non-empty
\* and below batchSize re-arms the timer for the full batchTimeout, so the
\* age flush happens batchTimeout after the most recent append, and the
\* callback flushes only a non-empty batch.
C25_DebouncedAgeFlush == [][C25_DebounceStep]_vars

\* What a flush would touch: batch with its arrays, the timer, the frames of
\* processBatch and the record of the sink calls.
FlushState == <<batch, heap, timer, lf, cb, batchSends, flushLog>>

\* One step of the loop out of a Fetch that timed out: nothing of the flush
\* state moves and the loop is back at its select.
C26_TimeoutStep ==
    (loopPc = "fetch" /\ loopPc' = "select")
        => /\ waited = FetchWait
           /\ UNCHANGED FlushState
           /\ UNCHANGED <<appended, acks, delivered>>

\* C26: a fetch that times out with no message causes no flush and leaves
\* batch and the deadline of the age timer as they were; the loop goes
\* straight to its next iteration.
C26_FetchTimeoutChangesNothing == [][C26_TimeoutStep]_vars

\* A fetch has just timed out while a record waits in batch under a timer
\* armed before that fetch.
C26_Witness ==
    /\ loopPc = "select"
    /\ ~shutdown
    /\ batch.len > 0
    /\ timer = BatchTimeout - FetchWait
    /\ sinceArm = FetchWait
    /\ \A s \in Slots : cb[s].pc = "idle"

\* Steps of the loop into and out of the sleep after a hard fetch error.
C27_ErrorStep ==
    /\ (loopPc = "fetch" /\ loopPc' = "errSleep")
          => UNCHANGED <<FlushState, appended, acks, delivered>>
    /\ (loopPc = "errSleep" /\ loopPc' # "errSleep")
          => /\ loopPc' = "select"
             /\ waited = ErrSleep
             /\ UNCHANGED <<FlushState, appended, acks, delivered>>

\* The age timer still covers what is in batch: it is pending, or its
\* callback is running.
AgeFlushPending ==
    timer >= 0 \/ \E s \in Slots : cb[s].pc # "idle"

SinkCallInFlight == \E f \in Frames : f.pc \in {"posted", "indiv"}

\* One step while a sink call is in flight: no Fetch is issued and no
\* message is acknowledged.
C28_HeldStep ==
    SinkCallInFlight =>
        /\ ~(loopPc # "fetch" /\ loopPc' = "fetch")
        /\ acks' = acks

\* C28: while a flush is in progress (a sink call started by the size check
\* or by the age timer has not returned) the loop issues no new fetch and
\* acknowledges no further message.
C28_NoFetchDuringFlush == [][C28_HeldStep]_vars

\* C29 (as stated): whenever batch is empty no age timer is pending.
C29_IdleTimerInactive == batch.len = 0 => timer = -1

\* One step of the age timer: it is armed only by the loop, either at the
\* check after a fetch that leaves batch non-empty and below batchSize or
\* with the clear that ends a size flush (batch is then empty), and a
\* callback that finds batch empty ends without a sink call.
C29_ArmStep ==
    /\ timer' > timer =>
          \/ loopPc = "check" /\ batch.len > 0 /\ batch.len < batchSize
          \/ loopPc = "clear" /\ batch'.len = 0
    /\ \A s \in Slots :
          (cb[s].pc = "check" /\ cb'[s].pc # "check" /\ batch.len = 0)
             => cb'[s] = Frame0 /\ flushLog' = flushLog

\* C29 (amended): the timer is armed at process start, with batch empty,
\* and from then on only by the loop: after a fetch that leaves batch
\* non-empty and below batchSize, and after every size flush, when batch is
\* empty again; a timer that expires on an empty batch flushes nothing.
C29_ArmedAtStartAndBySizeFlush ==
    /\ (batch.len = 0 /\ timer = BatchTimeout /\ sinceArm = 0)
    /\ [][C29_ArmStep]_vars

\* A size flush is over: batch is empty and the timer was armed anew.
C29_Witness ==
    /\ loopPc = "select"
    /\ batch.len = 0
    /\ timer = BatchTimeout
    /\ Len(flushLog) > 0
    /\ flushLog[Len(flushLog)].by = "size"

\* C30: a record is handed to the sink (by SendBatchLogs) only after its
\* message was acknowledged; a record appended and acknowledged but not yet
\* flushed when the process ends has reached neither the sink nor, being
\* acknowledged, the broker's redelivery.
C30_AckedBeforeSend ==
    \A r \in Msgs : batchSends[r] >= 1 => acks[r] = 1

\* C31: with a sink that rejects every request and no stop signal, every
\* published message is eventually acknowledged; every record is handed to
\* SendBatchLogs at most once; after each failed batch send exactly the
\* records of that batch are given to SendLog, once each; and every record
\* ends up sent once and out of batch for good (dropped, not re-queued).
C31_DrainedIntoVoid ==
    /\ [](\A r \in Msgs : batchSends[r] <= 1)
    /\ [](\A f \in Frames : f.pc = "ret" /\ ~f.ok => f.indiv = f.handed)
    /\ \A m \in Msgs : <>(acks[m] = 1)
    /\ \A m \in Msgs :
          <>[](m \notin poison => batchSends[m] = 1 /\ m \notin BatchRecords)

(* ---- further claims about the capture hook (SpecLogger) ---------------- *)

\* c.Request.Body as the handlers find it (lines 68-72): the buffer made of
\* requestBodyBytes, or, for a multipart form, the body Logger left alone.
RestoredBody ==
    IF Contains(request.contentType, "multipart/form-data")
    THEN Bytes(request.body)
    ELSE requestBodyBytes

C38_RecordTraceIsHeader ==
    \A i \in 1..Len(jsCalls) :
        /\ jsCalls[i].data.trace_id = response.traceHeader
        /\ jsCalls[i].data.trace_id # NoID
        /\ jsCalls[i].data.trace_id =
              (IF request.trace = ZeroTraceID THEN traceID ELSE request.trace)

\* A record was published under a generated uuid, which is also the header.
C38_Witness ==
    /\ lgPc = "done"
    /\ Len(jsCalls) = 1
    /\ request.trace = ZeroTraceID
    /\ jsCalls[1].data.trace_id.kind = "uuid"
    /\ response.traceHeader = jsCalls[1].data.trace_id

(* ---- further claims about the drain loop and the age timer (Spec) ------ *)

\* The loop is at the top of an iteration or waits in its Fetch.
AboutToFetch == loopPc \in {"select", "fetch"}

\* Something will still take care of what is in batch: the timer is
\* pending, a callback has yet to call processBatch, or a callback's flush
\* has carried every record that is in batch.
FlushTriggerLeft ==
    \/ timer >= 0
    \/ \E s \in Slots : cb[s].pc \in {"check", "call"}
    \/ /\ \E s \in Slots : cb[s].pc \in {"posted", "indiv", "ret", "clear"}
       /\ \A r \in BatchRecords : batchSends[r] >= 1

\* C33: whenever the loop is about to fetch and batch is non-empty, the age
\* timer is pending or its callback is running, and what is in batch is
\* covered by that trigger: a non-empty batch is never left waiting for a
\* further message to get flushed.
C33_NonEmptyBatchHasTrigger ==
    (AboutToFetch /\ batch.len > 0) => AgeFlushPending /\ FlushTriggerLeft

\* The loop waits in a Fetch with records in batch while the timer has
\* expired and only its running callback covers them.
C33_Witness ==
    /\ loopPc = "fetch"
    /\ batch.len > 0
    /\ timer = -1
    /\ \E s \in Slots : cb[s].pc = "posted" /\ cb[s].handed = Elems(heap, batch)

\* Every record appended so far still waits in batch and has waited for some
\* time: the iteration the loop is in has appended nothing.
NothingAppendedNow ==
    /\ batch.len > 0
    /\ \A r \in appended : r \in BatchRecords /\ Unflushed(r) /\ age[r] > 0

\* One step of the loop that ends an iteration without an append: the time
\* left on the age timer is what it was.
C34_NoAppendStep ==
    /\ (loopPc = "fetch" /\ loopPc' \in {"select", "errSleep"})
          => timer' = timer
    /\ (loopPc = "errSleep" /\ loopPc' = "select") => timer' = timer
    /\ (loopPc = "check" /\ loopPc' = "select" /\ NothingAppendedNow)
          => timer' = timer

\* C34: an iteration of the loop that appends nothing (fetch timeout, hard
\* fetch error, or a fetch of messages that all fail to unmarshal) leaves
\* the deadline of the age timer where it was, so such messages cannot
\* postpone the age flush of the records in batch.
C34_NoAppendKeepsDeadline == [][C34_NoAppendStep]_vars

(* ---- further claims about the sink client (SpecLoki) ------------------- *)

\* A SendLog call has built its push request for the entry it was given.
LogRequestBuilt ==
    /\ lkPc \in {"send", "done"}
    /\ lkCall.op = "SendLog"
    /\ lkReq # <<>>

\* The streams SendBatchLogs can build for a batch, over every order of
\* its groups.
BatchStreams(entries) ==
    UNION {SeqSet(StreamsOf(entries, order)) :
              order \in RangeOrders(StreamKeys(entries))}

\* The label sets under which SendBatchLogs sends entry e, over every batch
\* that holds e.
BatchLabelsOf(e) ==
    {s.Stream :
        s \in {t \in UNION {BatchStreams(l) :
                               l \in {m \in EntryLists : e \in SeqSet(m)}} :
                  ValueOf(e) \in SeqSet(t.Values)}}

\* C35: the stream labels SendLog gives a record are the labels the record
\* gets from SendBatchLogs, whatever batch it is sent in.
C35_SameLabelsOnBothPaths ==
    LogRequestBuilt =>
        \A labels \in BatchLabelsOf(lkCall.entries[1]) :
            lkReq[1].Stream = labels

(* ---- claim about the whole flush path (SpecFlushPath) ------------------ *)

\* Steps that meet an empty batch: the callback ends at its test, and the
\* loop returns on the stop signal without a flush.
C36_SkipStep ==
    /\ \A s \in Slots :
          (cb[s].pc = "check" /\ cb'[s].pc # "check" /\ batch.len = 0)
             => cb'[s] = Frame0 /\ flushLog' = flushLog
    /\ (loopPc = "select" /\ loopPc' # "select" /\ shutdown /\ batch.len = 0)
          => loopPc' = "done" /\ lf' = lf /\ flushLog' = flushLog

\* C36: no sink request is made for an empty batch: the timer callback and
\* the shutdown flush skip an empty batch, a processBatch that waits for the
\* sink was given at least one record, and SendBatchLogs of an empty list
\* returns nil without an HTTP POST (no payload it posts is without a
\* stream).
C36_NoSinkRequestForEmptyBatch ==
    /\ [](\A f \in Frames : f.pc \in {"posted", "indiv"} => f.handed # <<>>)
    /\ [](\A i \in 1..Len(flushLog) : flushLog[i].n > 0)
    /\ []((lkPc = "done" /\ lkCall.op = "SendBatchLogs"
              /\ lkCall.entries = <<>>)
             => lkPosts = <<>> /\ lkRet = "nil")
    /\ [](lkCall.op = "SendBatchLogs" =>
             \A i \in 1..Len(lkPosts) : lkPosts[i].streams # <<>>)
    /\ [][C36_SkipStep]_vars

\* A callback passed its test, the loop cleared batch before the callback's
\* processBatch read it, and processBatch returned without a sink call.
C36_Witness ==
    /\ \E s \in Slots :
          cb[s].pc = "ret" /\ cb[s].handed = <<>> /\ cb[s].indiv = <<>>
    /\ batch.len = 0
    /\ appended # {}

(* ---- claim about the client as a package (SpecNatsClient) -------------- *)

\* A call that needs the stream was made on a client whose StreamCfg is nil.
CalledWithoutStream(p) ==
    /\ cli[p].op \in {"CreatePullConsumer", "CreatePushConsumer", "SubscribePull"}
    /\ ~cli[p].hasStreamCfg

\* Client p returns from SetupStream in this step.
SetupStreamReturns(p) ==
    /\ cli[p].op = "SetupStream"
    /\ cli[p].pc # "idle"
    /\ cli'[p].pc = "idle"

\* One step of a client and StreamCfg: it is written only by a SetupStream
\* that returns nil, which leaves it at the configuration that call was
\* given; a SetupStream that returns an error leaves it as it was, nil or
\* the configuration of an earlier call.
C37_StreamCfgStep ==
    \A p \in Clients :
        /\ (SetupStreamReturns(p) /\ cli'[p].ret = "nil")
              => /\ cli'[p].hasStreamCfg
                 /\ cli'[p].StreamCfg = streamConfig(cli[p].config)
        /\ (SetupStreamReturns(p) /\ cli'[p].ret = "error")
              => /\ cli'[p].hasStreamCfg = cli[p].hasStreamCfg
                 /\ cli'[p].StreamCfg = cli[p].StreamCfg
        /\ ~SetupStreamReturns(p)
              => /\ cli'[p].hasStreamCfg = cli[p].hasStreamCfg
                 /\ cli'[p].StreamCfg = cli[p].StreamCfg

\* C37: CreatePullConsumer, CreatePushConsumer and SubscribePull return an
\* error without a request to the server unless a SetupStream call has
\* succeeded before on the same client (StreamCfg is nil until then, and
\* the server's consumer is as it was); a failed SetupStream leaves the
\* client's StreamCfg unchanged, and a successful one records exactly the
\* configuration it was called with.
C37_NeedsSetupStream ==
    /\ [](\A p \in Clients :
            CalledWithoutStream(p) =>
                /\ cli[p].pc = "idle"
                /\ cli[p].ret = "error"
                /\ cli[p].why = "not set up"
                /\ cli[p].sent = 0)
    /\ []((\A q \in Clients : ~cli[q].hasStreamCfg) => jsConsumer = NoConsumer)
    /\ [][C37_StreamCfgStep]_vars

\* The publisher set the stream up and then failed to set it up with
\* another configuration, which its StreamCfg does not show; the consumer
\* process called SubscribePull without a successful SetupStream, though
\* the stream is there, and was turned away before any request.
C37_Witness ==
    /\ cli["api"].op = "SetupStream"
    /\ cli["api"].pc = "idle"
    /\ cli["api"].ret = "error"
    /\ cli["api"].hasStreamCfg
    /\ cli["api"].StreamCfg # streamConfig(cli["api"].config)
    /\ jsStream.exists
    /\ cli["consumer"].op = "SubscribePull"
    /\ cli["consumer"].calls = 2
    /\ cli["consumer"].why = "not set up"
    /\ cli["consumer"].sent = 0

====
